---- MODULE Spec2Model ----
(***************************************************************************)
(* A model of puppetcpp: the definition scanner (the AST pre-pass that     *)
(* registers class, defined-type and node definitions in the catalog),     *)
(* the runtime scope, the logger, the exit status of main, operators and   *)
(* functions of the evaluator, and the rules of the grammar.               *)
(*                                                                         *)
(* Strings that the scanner inspects (names, class scopes, qualified       *)
(* names) are sequences of tokens: "::" is one token, an identifier is one *)
(* token, so "a::b" is <<"a", "::", "b">> and the empty string is <<>>.    *)
(* Concatenation is \o and starts_with(s, "::") looks at the first token.  *)
(***************************************************************************)
EXTENDS Integers, Sequences, FiniteSets, TLC

VARIABLES
    pc,             \* scanner: "idle", "scanning", "done" (scan returned), "failed" (scan threw)
    scopes,         \* scanning_visitor::_scopes, the class-scope stack
    frames,         \* the visitor's open handlers (its call stack), innermost last
    classes,        \* catalog: registered class definitions, in registration order
    defined_types,  \* catalog: registered defined types, in registration order
    nodes,          \* catalog: number of registered node definitions
    error,          \* the evaluation_exception the scan threw: [kind, pos]
    visited,        \* history: the definition the scanner visited in the last step
    unscanned,      \* history: the tree holds a definition no handler was called for
    runtime_scopes, \* runtime::scope objects: [parent, variables], the top scope first
    first_set,      \* history: per scope, the first value each name was set to
    returned,       \* what the last call of scope::set or scope::get returned
    logger,         \* logging::logger: _level, _warnings, _errors, the records written
    main_pc,        \* main: "start", "compiling", "exited"
    exit_status,    \* the value main returned
    failure,        \* history: the error that occurred during the run of main
    run,            \* main: the catalog obtained, the handlers' records, the summary
    evaluation,     \* the last operator or function call: its operands and its result
    bound,          \* the value bound to the variable $a, shared by every reference to it
    yielded,        \* history: the argument lists the lambda of the call was invoked with
    assigned,       \* history: the value that was assigned to $a
    parsing         \* parser: the grammar rules being matched, the innermost last

scanVars == <<pc, scopes, frames, classes, defined_types, nodes, error, visited, unscanned>>

scopeVars == <<runtime_scopes, first_set, returned>>

mainVars == <<logger, main_pc, exit_status, failure, run>>

evalVars == <<evaluation, bound, yielded, assigned>>

parseVars == <<parsing>>

vars == <<pc, scopes, frames, classes, defined_types, nodes, error, visited, unscanned,
          runtime_scopes, first_set, returned, logger, main_pc, exit_status, failure, run,
          evaluation, bound, yielded, assigned, parsing>>

----------------------------------------------------------------------------
(* Bounds of the model *)

\* Deepest nesting of open handlers that is explored.
MaxDepth == 2

\* Most definitions the catalog registers in one run.
MaxDefs == 2

\* Longest parameter list of a class or defined type.
MaxParams == 2

\* Most runtime scopes created, and most records a logger is asked to log.
MaxScopes == 2
MaxLog == 3

\* The width in bits of the integers of the model, which stand for int64_t.
IntBits == 4

\* Most elements of an array or hash operand.
MaxElements == 2

\* Most characters of a string operand of a comparison.
MaxChars == 2

\* Most characters of a string that is split, and of a delimiter.
MaxSplitChars == 4
MaxDelimiterChars == 2

\* Deepest nesting of grammar rules that is explored.
MaxRules == 12

----------------------------------------------------------------------------
(* The syntax tree: the values a definition node carries *)

\* The scope the constructor pushes, and the empty scope of class_scope(_scopes).
TopLevelScope == <<"::">>
NoClassScope == <<>>

\* ast::name values of class and defined-type definitions.
NameValues == { <<>>, <<"::", "a">>, <<"a">>, <<"main">>, <<"settings">> }

\* optional<ast::name> of `inherits`: <<>> is none, <<n>> is the parent n.
ParentValues == { <<>>, << <<"b">> >>, << <<"c">> >> }

\* ast::parameter: the variable's name and whether it captures rest (`*`).
Parameters ==
    { [name |-> "x", captures |-> FALSE], [name |-> "x", captures |-> TRUE],
      [name |-> "title", captures |-> FALSE], [name |-> "name", captures |-> FALSE],
      [name |-> "require", captures |-> FALSE] }

ParameterLists == UNION { [1..n -> Parameters] : n \in 0..MaxParams }

\* resource::is_metaparameter
is_metaparameter(name) ==
    name \in { "before", "after", "require", "subscribe", "notify", "alias", "tag",
               "stage", "schedule", "audit", "loglevel", "noop" }

NoError == [kind |-> "none", pos |-> "none"]
\* What `visited` remembers of a definition node: its kind, name and parent,
\* whether a parameter of it is defective, and the syntactic place it stands at.
NoVisit == [def |-> "none", name |-> <<>>, parent |-> <<>>, defective |-> FALSE, where |-> "none"]

----------------------------------------------------------------------------
(* The catalog's registries *)

RECURSIVE SelectParents(_, _)
SelectParents(defs, name) ==
    IF defs = <<>> THEN <<>>
    ELSE (IF Head(defs).name = name THEN <<Head(defs).parent>> ELSE <<>>)
         \o SelectParents(Tail(defs), name)

\* catalog::find_class: the definitions of the class (here their parents), <<>> if none.
find_class(klass) == SelectParents(classes, klass)

\* catalog::find_defined_type: whether a defined type of that name is registered.
find_defined_type(name) == \E i \in 1..Len(defined_types) : defined_types[i] = name

Registered == Len(classes) + Len(defined_types) + nodes

----------------------------------------------------------------------------
(* scanning_visitor's private helpers *)

can_define == scopes[Len(scopes)] # <<>>

RECURSIVE JoinScopes(_, _)
JoinScopes(i, qualified) ==
    IF i > Len(scopes) THEN qualified
    ELSE JoinScopes(i + 1,
            (IF qualified # <<>> THEN qualified \o <<"::">> ELSE qualified) \o scopes[i])

qualify(name) ==
    IF Len(scopes) < 2 THEN name
    ELSE LET qualified == JoinScopes(2, <<>>)
         IN (IF qualified # <<>> THEN qualified \o <<"::">> ELSE qualified) \o name

\* starts_with_colons looking for a single ":" character, which no token is.
starts_with_one_colon(name) == Len(name) >= 1 /\ name[1] = ":"

starts_with_colons(name) == Len(name) >= 1 /\ name[1] = "::"

\* is_builtin with the test of "settings" left out.
is_builtin_main_only(qualified_name) == qualified_name = <<"main">>

\* The reserved-name test of validate_name.
is_builtin(qualified_name) == qualified_name = <<"main">> \/ qualified_name = <<"settings">>

\* validate_name that looks for a defined type of the name whatever is defined.
validate_name_types_only(is_class, name) ==
    IF ~can_define THEN [kind |-> "location", value |-> <<>>]
    ELSE IF name = <<>> THEN [kind |-> "empty_name", value |-> <<>>]
    ELSE IF starts_with_colons(name) THEN [kind |-> "invalid_name", value |-> <<>>]
    ELSE LET qualified_name == qualify(name)
         IN IF is_builtin(qualified_name)
               THEN [kind |-> "builtin", value |-> qualified_name]
            ELSE IF is_class /\ find_defined_type(qualified_name)
               THEN [kind |-> "was_defined_type", value |-> qualified_name]
            ELSE [kind |-> "none", value |-> qualified_name]

\* validate_name: [kind |-> "none", value |-> qualified name] or the error it throws.
validate_name(is_class, name) ==
    IF ~can_define THEN [kind |-> "location", value |-> <<>>]
    ELSE IF name = <<>> THEN [kind |-> "empty_name", value |-> <<>>]
    ELSE IF starts_with_colons(name) THEN [kind |-> "invalid_name", value |-> <<>>]
    ELSE LET qualified_name == qualify(name)
         IN IF is_builtin(qualified_name)
               THEN [kind |-> "builtin", value |-> qualified_name]
            ELSE IF is_class /\ find_defined_type(qualified_name)
               THEN [kind |-> "was_defined_type", value |-> qualified_name]
            ELSE IF ~is_class /\ find_class(qualified_name) # <<>>
               THEN [kind |-> "was_class", value |-> qualified_name]
            ELSE [kind |-> "none", value |-> qualified_name]

\* The three tests validate_parameters makes of one parameter, in its order.
parameter_error(parameter) ==
    IF parameter.name = "title" \/ parameter.name = "name" THEN "reserved_parameter"
    ELSE IF parameter.captures THEN "captures_rest"
    ELSE IF is_metaparameter(parameter.name) THEN "metaparameter"
    ELSE "none"

\* validate_parameters returning after the first parameter.
validate_first_parameter(parameters) ==
    IF parameters = <<>> THEN "none" ELSE parameter_error(Head(parameters))

\* validate_parameters: "none", or the error thrown for the first bad parameter.
RECURSIVE validate_parameters(_)
validate_parameters(parameters) ==
    IF parameters = <<>> THEN "none"
    ELSE IF parameter_error(Head(parameters)) # "none" THEN parameter_error(Head(parameters))
    ELSE validate_parameters(Tail(parameters))

\* parent_conflict with the comparison inverted: it throws on the same parent.
parent_conflict_inverted(klass, parent) ==
    /\ parent # <<>>
    /\ \E i \in 1..Len(find_class(klass)) :
          /\ find_class(klass)[i] # <<>>
          /\ find_class(klass)[i] = parent

\* The parent check of the class handler: some registered definition of the
\* class has a parent, and it is another one.
parent_conflict(klass, parent) ==
    /\ parent # <<>>
    /\ \E i \in 1..Len(find_class(klass)) :
          /\ find_class(klass)[i] # <<>>
          /\ find_class(klass)[i] # parent

----------------------------------------------------------------------------
(* The visitor's call stack *)

\* An open handler: whether it pushed a class_scope, whether statements occur
\* under it, and (class parameters only) the class body to scan after it.
Frame(kind, pushed, statements, body) ==
    [kind |-> kind, pushed |-> pushed, statements |-> statements, body |-> body]

\* The syntactic place of the next child: top level or the enclosing construct.
Where == IF frames = <<>> THEN "top" ELSE frames[Len(frames)].kind

\* Statements (and so definitions) occur at top level and in bodies.
StatementPosition == IF frames = <<>> THEN TRUE ELSE frames[Len(frames)].statements

\* Expressions occur wherever the enclosing construct has children.
ExpressionPosition == TRUE

\* An exception leaves the scan: the visitor and its stacks are destroyed.
Throw(kind, pos, visit) ==
    /\ pc' = "failed"
    /\ error' = [kind |-> kind, pos |-> pos]
    /\ scopes' = <<>>
    /\ frames' = <<>>
    /\ visited' = visit
    /\ UNCHANGED <<classes, defined_types, nodes, unscanned>>

----------------------------------------------------------------------------
(* definition_scanner::scan *)

ScanInit ==
    /\ pc = "idle"
    /\ scopes = <<>>
    /\ frames = <<>>
    /\ classes = <<>>
    /\ defined_types = <<>>
    /\ nodes = 0
    /\ error = NoError
    /\ visited = NoVisit
    /\ unscanned = FALSE

\* scan(context): returns at once for a null context or a tree without a body,
\* otherwise constructs the visitor, which pushes the top-level scope.
StartScan(context) ==
    /\ pc # "scanning"
    /\ error' = NoError
    /\ visited' = NoVisit
    /\ unscanned' = FALSE
    /\ frames' = <<>>
    /\ IF context = "tree"
          THEN pc' = "scanning" /\ scopes' = <<TopLevelScope>>
          ELSE pc' = "done" /\ scopes' = <<>>
    /\ UNCHANGED <<classes, defined_types, nodes>>

\* The loop of scan has visited every expression of the body.
FinishScan ==
    /\ pc = "scanning"
    /\ frames = <<>>
    /\ pc' = "done"
    /\ visited' = NoVisit
    /\ UNCHANGED <<scopes, frames, classes, defined_types, nodes, error, unscanned>>

----------------------------------------------------------------------------
(* Handlers of expressions that register nothing *)

Open(frame, scope) ==
    /\ frames' = Append(frames, frame)
    /\ scopes' = IF frame.pushed THEN Append(scopes, scope) ELSE scopes

\* operator()(basic_expression) on a literal, variable, name, bare word or type:
\* the empty class scope is pushed and popped, nothing is scanned.
VisitLeaf(kind) ==
    /\ pc = "scanning"
    /\ ExpressionPosition
    /\ visited' = NoVisit
    /\ UNCHANGED <<pc, scopes, frames, classes, defined_types, nodes, error, unscanned>>

\* operator()(ast::string): nothing is scanned, whatever the string interpolates
\* (the interpolation grammar is `{ statements }`, so it may hold definitions).
VisitString(interpolates) ==
    /\ pc = "scanning"
    /\ ExpressionPosition
    /\ unscanned' = (unscanned \/ interpolates = "definition")
    /\ visited' = NoVisit
    /\ UNCHANGED <<pc, scopes, frames, classes, defined_types, nodes, error>>

\* basic_expression on an array or hash; resource, resource override, resource
\* defaults and collection expressions: an empty class scope, expression children.
EnterNoClassScope(kind) ==
    /\ pc = "scanning"
    /\ Len(frames) < MaxDepth
    /\ IF kind \in {"array", "hash", "collection"} THEN ExpressionPosition ELSE StatementPosition
    /\ Open(Frame("no_class_scope", TRUE, FALSE, <<>>), NoClassScope)
    /\ visited' = NoVisit
    /\ UNCHANGED <<pc, classes, defined_types, nodes, error, unscanned>>

\* control_flow_expression (case, if, unless, function call with its lambda):
\* an empty class scope, bodies of statements.
EnterControlFlow(kind) ==
    /\ pc = "scanning"
    /\ Len(frames) < MaxDepth
    /\ ExpressionPosition
    /\ Open(Frame("control_flow", TRUE, TRUE, <<>>), NoClassScope)
    /\ visited' = NoVisit
    /\ UNCHANGED <<pc, classes, defined_types, nodes, error, unscanned>>

\* unary_expression, a nested expression, and the selector and access
\* subexpressions of a postfix_expression: no class scope, expression children.
EnterSubexpression(kind) ==
    /\ pc = "scanning"
    /\ Len(frames) < MaxDepth
    /\ ExpressionPosition
    /\ Open(Frame("subexpression", FALSE, FALSE, <<>>), NoClassScope)
    /\ visited' = NoVisit
    /\ UNCHANGED <<pc, classes, defined_types, nodes, error, unscanned>>

\* postfix_expression -> method_call_expression -> lambda: no class scope, and
\* the lambda's body is a list of statements.
EnterMethodCall ==
    /\ pc = "scanning"
    /\ Len(frames) < MaxDepth
    /\ ExpressionPosition
    /\ Open(Frame("method_call", FALSE, TRUE, <<>>), NoClassScope)
    /\ visited' = NoVisit
    /\ UNCHANGED <<pc, classes, defined_types, nodes, error, unscanned>>

\* A handler that returns with ~class_scope popping nothing.
LeaveWithoutPop ==
    /\ pc = "scanning"
    /\ frames # <<>>
    /\ LET frame == frames[Len(frames)]
           outer == SubSeq(frames, 1, Len(frames) - 1)
       IN IF frame.body # <<>>
             THEN /\ frames' = Append(outer, Frame("class_body", TRUE, TRUE, <<>>))
                  /\ scopes' = Append(scopes, frame.body[1])
             ELSE /\ frames' = outer
                  /\ scopes' = scopes
    /\ visited' = NoVisit
    /\ UNCHANGED <<pc, classes, defined_types, nodes, error, unscanned>>

\* A handler returns: ~class_scope pops what it pushed. The class handler then
\* goes on from its parameters to its body, under the class's name.
Leave ==
    /\ pc = "scanning"
    /\ frames # <<>>
    /\ LET frame == frames[Len(frames)]
           outer == SubSeq(frames, 1, Len(frames) - 1)
           popped == IF frame.pushed THEN SubSeq(scopes, 1, Len(scopes) - 1) ELSE scopes
       IN IF frame.body # <<>>
             THEN /\ frames' = Append(outer, Frame("class_body", TRUE, TRUE, <<>>))
                  /\ scopes' = Append(popped, frame.body[1])
             ELSE /\ frames' = outer
                  /\ scopes' = popped
    /\ visited' = NoVisit
    /\ UNCHANGED <<pc, classes, defined_types, nodes, error, unscanned>>

----------------------------------------------------------------------------
(* Handlers of definitions *)

\* Some parameter of the list is named title or name, captures rest, or has the
\* name of a metaparameter.
Defective(parameters) ==
    \E i \in 1..Len(parameters) :
        \/ parameters[i].name \in {"title", "name"}
        \/ parameters[i].captures
        \/ is_metaparameter(parameters[i].name)

Visit(def, name, parent, parameters) ==
    [def |-> def, name |-> name, parent |-> parent, defective |-> Defective(parameters),
     where |-> Where]

\* catalog::define_class, define_type, define_node
define_class(klass, parent) == classes' = Append(classes, [name |-> klass, parent |-> parent])
define_type(name) == defined_types' = Append(defined_types, name)
define_node == nodes' = nodes + 1

\* The class handler calling define_class before it validates the parameters.
VisitClassDefinitionDefiningFirst(name, parent, parameters, body) ==
    /\ pc = "scanning"
    /\ StatementPosition
    /\ LET klass == validate_name(TRUE, name)
           visit == Visit("class", name, parent, parameters)
       IN IF klass.kind # "none" THEN Throw(klass.kind, "name", visit)
          ELSE IF parent_conflict(klass.value, parent) THEN Throw("parent_conflict", "parent", visit)
          ELSE /\ Registered < MaxDefs
               /\ define_class(klass.value, parent)
               /\ visited' = visit
               /\ UNCHANGED <<defined_types, nodes, unscanned>>
               /\ IF validate_parameters(parameters) # "none"
                     THEN /\ pc' = "failed"
                          /\ error' = [kind |-> validate_parameters(parameters),
                                       pos |-> "parameter"]
                          /\ scopes' = <<>>
                          /\ frames' = <<>>
                     ELSE /\ UNCHANGED <<pc, error>>
                          /\ IF parameters # <<>>
                                THEN /\ Len(frames) < MaxDepth
                                     /\ Open(Frame("class_parameters", TRUE, FALSE,
                                                   IF body THEN <<name>> ELSE <<>>), NoClassScope)
                                ELSE IF body
                                THEN /\ Len(frames) < MaxDepth
                                     /\ Open(Frame("class_body", TRUE, TRUE, <<>>), name)
                                ELSE UNCHANGED <<frames, scopes>>

\* operator()(ast::class_definition_expression)
VisitClassDefinition(name, parent, parameters, body) ==
    /\ pc = "scanning"
    /\ StatementPosition
    /\ LET klass == validate_name(TRUE, name)
           visit == Visit("class", name, parent, parameters)
       IN IF klass.kind # "none" THEN Throw(klass.kind, "name", visit)
          ELSE IF parent_conflict(klass.value, parent) THEN Throw("parent_conflict", "parent", visit)
          ELSE IF validate_parameters(parameters) # "none"
             THEN Throw(validate_parameters(parameters), "parameter", visit)
          ELSE /\ Registered < MaxDefs
               /\ define_class(klass.value, parent)
               /\ IF parameters # <<>>
                     THEN /\ Len(frames) < MaxDepth
                          /\ Open(Frame("class_parameters", TRUE, FALSE,
                                        IF body THEN <<name>> ELSE <<>>), NoClassScope)
                     ELSE IF body
                     THEN /\ Len(frames) < MaxDepth
                          /\ Open(Frame("class_body", TRUE, TRUE, <<>>), name)
                     ELSE UNCHANGED <<frames, scopes>>
               /\ visited' = visit
               /\ UNCHANGED <<pc, defined_types, nodes, error, unscanned>>

\* operator()(ast::defined_type_expression)
VisitDefinedType(name, parameters, body) ==
    /\ pc = "scanning"
    /\ StatementPosition
    /\ LET visit == Visit("defined_type", name, <<>>, parameters)
       IN IF validate_parameters(parameters) # "none"
             THEN Throw(validate_parameters(parameters), "parameter", visit)
          ELSE IF validate_name(FALSE, name).kind # "none"
             THEN Throw(validate_name(FALSE, name).kind, "name", visit)
          ELSE /\ Registered < MaxDefs
               /\ define_type(validate_name(FALSE, name).value)
               /\ IF parameters # <<>> \/ body
                     THEN /\ Len(frames) < MaxDepth
                          /\ Open(Frame("defined_type", TRUE, body, <<>>), NoClassScope)
                     ELSE UNCHANGED <<frames, scopes>>
               /\ visited' = visit
               /\ UNCHANGED <<pc, classes, nodes, error, unscanned>>

\* operator()(ast::node_definition_expression)
VisitNodeDefinition(body) ==
    /\ pc = "scanning"
    /\ StatementPosition
    /\ LET visit == Visit("node", <<>>, <<>>, <<>>)
       IN IF ~can_define THEN Throw("node_location", "node", visit)
          ELSE /\ Registered < MaxDefs
               /\ define_node
               /\ IF body
                     THEN /\ Len(frames) < MaxDepth
                          /\ Open(Frame("node", TRUE, TRUE, <<>>), NoClassScope)
                     ELSE UNCHANGED <<frames, scopes>>
               /\ visited' = visit
               /\ UNCHANGED <<pc, classes, defined_types, error, unscanned>>

----------------------------------------------------------------------------
(* The scanner's specification *)

----------------------------------------------------------------------------
(* runtime::scope *)

ScopeNames == {"x", "f"}
ScopeValues == {1, 2}

\* The facts provider of the top scope: the fact f.
FactNames == {"f"}
FactValue(name) == 7

NoVariables == [name \in {} |-> 0]
NoCall == [call |-> "none", scope |-> 0, name |-> "", value |-> <<>>, result |-> <<>>]

ScopeInit ==
    /\ runtime_scopes = << [parent |-> 0, variables |-> NoVariables] >>
    /\ first_set = << NoVariables >>
    /\ returned = NoCall

\* scope::set with emplace replaced by an assignment that overwrites.
scope_set_overwriting(variables, name, value) ==
    [variables |-> (name :> value) @@ variables, result |-> <<>>]

\* scope::set: the variables after the call, and the result, <<>> for nullptr or
\* the previously assigned variable.
scope_set(variables, name, value) ==
    IF name \in DOMAIN variables
       THEN [variables |-> variables, result |-> <<variables[name]>>]
       ELSE [variables |-> (name :> value) @@ variables, result |-> <<>>]

\* scope::get: the scope's variable, else the parent's, else (top scope) the fact.
RECURSIVE scope_get(_, _)
scope_get(s, name) ==
    IF name \in DOMAIN runtime_scopes[s].variables
       THEN <<runtime_scopes[s].variables[name]>>
    ELSE IF runtime_scopes[s].parent # 0 THEN scope_get(runtime_scopes[s].parent, name)
    ELSE IF name \in FactNames THEN <<FactValue(name)>>
    ELSE <<>>

\* scope::scope(parent)
ScopeCreate(parent) ==
    /\ Len(runtime_scopes) < MaxScopes
    /\ runtime_scopes' = Append(runtime_scopes, [parent |-> parent, variables |-> NoVariables])
    /\ first_set' = Append(first_set, NoVariables)
    /\ returned' = NoCall

ScopeSet(s, name, value) ==
    LET after == scope_set(runtime_scopes[s].variables, name, value)
    IN /\ runtime_scopes' = [runtime_scopes EXCEPT ![s].variables = after.variables]
       /\ first_set' = IF name \in DOMAIN first_set[s] THEN first_set
                       ELSE [first_set EXCEPT ![s] = (name :> value) @@ first_set[s]]
       /\ returned' = [call |-> "set", scope |-> s, name |-> name, value |-> <<value>>,
                       result |-> after.result]

ScopeGet(s, name) ==
    /\ returned' = [call |-> "get", scope |-> s, name |-> name, value |-> <<>>,
                    result |-> scope_get(s, name)]
    /\ UNCHANGED <<runtime_scopes, first_set>>

----------------------------------------------------------------------------
(* logging::logger *)

\* logging::level, in the order of its enumerators.
Levels == <<"debug", "info", "notice", "warning", "error", "alert", "emergency", "critical">>
LevelNames == { Levels[i] : i \in 1..Len(Levels) }
LevelValue(level) == CHOOSE i \in 0..(Len(Levels) - 1) : Levels[i + 1] = level

\* logger::logger. `written` is the records handed to log_message since the
\* construction or the last reset.
NewLogger == [level |-> "notice", warnings |-> 0, errors |-> 0, written |-> <<>>]

would_log(lg, level) == LevelValue(level) >= LevelValue(lg.level)

\* The counting test of logger::log with > for >=.
counts_as_error_above(level) == LevelValue(level) > LevelValue("error")

\* The test of logger::log that counts a record as an error.
counts_as_error(level) == LevelValue(level) >= LevelValue("error")

\* logger::log without the would_log test.
log_unfiltered(lg, level) ==
    [lg EXCEPT !.warnings = IF level = "warning" THEN @ + 1 ELSE @,
               !.errors = IF level # "warning" /\ counts_as_error(level) THEN @ + 1 ELSE @,
               !.written = Append(@, level)]

\* logger::log(level, line, column, text, path, message)
log(lg, level) ==
    IF ~would_log(lg, level) THEN lg
    ELSE [lg EXCEPT !.warnings = IF level = "warning" THEN @ + 1 ELSE @,
                    !.errors = IF level # "warning" /\ counts_as_error(level) THEN @ + 1 ELSE @,
                    !.written = Append(@, level)]

\* logger::level(level) and logger::reset
set_level(lg, level) == [lg EXCEPT !.level = level]
reset(lg) == [lg EXCEPT !.warnings = 0, !.errors = 0, !.written = <<>>]

LoggerLog(level) ==
    /\ Len(logger.written) < MaxLog
    /\ logger' = log(logger, level)

LoggerLevel(level) == logger' = set_level(logger, level)

LoggerReset == logger' = reset(logger)

----------------------------------------------------------------------------
(* main *)

EXIT_SUCCESS == 0
EXIT_FAILURE == 1

\* No catalog, no record reported by an exception handler, no summary yet.
NoRun == [catalog |-> FALSE, reported |-> <<>>, summary |-> "none"]

MainInit ==
    /\ logger = NewLogger
    /\ main_pc = "start"
    /\ exit_status = -1
    /\ failure = "none"
    /\ run = NoRun

\* The record an exception handler of main hands to LOG, as the logger emits it:
\* nothing when the level is filtered; positioned when it carries the
\* exception's line, column, text and path.
Report(lg, level, positioned) ==
    IF would_log(lg, level) THEN << [level |-> level, positioned |-> positioned] >> ELSE <<>>

Exit(lg, status, fail) ==
    /\ logger' = lg
    /\ exit_status' = status
    /\ failure' = fail
    /\ main_pc' = "exited"

\* The end of main: the summary is logged and the status follows errors().
Summary(lg, fail, reported, catalog) ==
    /\ Exit(log(lg, "notice"), IF lg.errors > 0 THEN EXIT_FAILURE ELSE EXIT_SUCCESS, fail)
    /\ run' = [catalog |-> catalog, reported |-> reported,
               summary |-> IF lg.errors > 0 THEN "failed" ELSE "succeeded"]

\* The handler of settings_exception: an error and a notice, then EXIT_FAILURE.
SettingsException(lg) ==
    /\ Exit(log(log(lg, "error"), "notice"), EXIT_FAILURE, "settings")
    /\ run' = [run EXCEPT !.reported = Report(lg, "error", FALSE) \o Report(lg, "notice", FALSE)]

\* main up to the call of node.compile: the settings are parsed (which may throw,
\* or ask for the version or the help), the log level is set, the directories are
\* logged, the environment and the node are constructed, the manifests are checked.
MainSettings(outcome, level) ==
    /\ main_pc = "start"
    /\ LET configured == log(log(set_level(logger, level), "debug"), "debug")
       IN CASE outcome \in {"version", "help"} ->
                    Exit(logger, EXIT_SUCCESS, "none") /\ UNCHANGED run
            [] outcome = "settings_exception" -> SettingsException(logger)
            [] outcome = "no_manifests" -> SettingsException(configured)
            [] outcome = "exception" ->
                    Summary(log(configured, "critical"), "exception",
                            Report(configured, "critical", FALSE), FALSE)
            [] outcome = "ok" -> /\ logger' = log(configured, "notice")
                                 /\ main_pc' = "compiling"
                                 /\ UNCHANGED <<exit_status, failure, run>>

\* node.compile logs a record through the logger it was given.
CompileLogs(level) ==
    /\ main_pc = "compiling"
    /\ Len(logger.written) < MaxLog
    /\ logger' = log(logger, level)
    /\ failure' = IF level \in {"error", "alert", "emergency", "critical"}
                     THEN "logged_error" ELSE failure
    /\ UNCHANGED <<main_pc, exit_status, run>>

\* node.compile returns a catalog or throws, and main handles it.
CompileEnds(outcome) ==
    /\ main_pc = "compiling"
    /\ CASE outcome = "catalog" -> Summary(logger, failure, <<>>, TRUE)
         [] outcome = "compilation_exception" ->
                Summary(log(logger, "error"), "compilation", Report(logger, "error", TRUE), FALSE)
         [] outcome = "yaml_parse_exception" ->
                Summary(log(logger, "error"), "facts", Report(logger, "error", TRUE), FALSE)
         [] outcome = "settings_exception" -> SettingsException(logger)
         [] outcome = "exception" ->
                Summary(log(logger, "critical"), "exception",
                        Report(logger, "critical", FALSE), FALSE)

----------------------------------------------------------------------------
(* runtime::operators and runtime::functions *)

RECURSIVE Pow2(_)
Pow2(n) == IF n = 0 THEN 1 ELSE 2 * Pow2(n - 1)

\* numeric_limits<int64_t>::min() and max(), at the model's width.
IntMin == -Pow2(IntBits - 1)
IntMax == Pow2(IntBits - 1) - 1
Int64 == IntMin..IntMax

Abs(n) == IF n < 0 THEN -n ELSE n

\* The results of an evaluation: a value, an evaluation_exception with its
\* message and the operand it is positioned at, or a trap of the machine.
Value(v) == [kind |-> "value", value |-> v, message |-> "", position |-> "none"]
EvaluationError(message, position) ==
    [kind |-> "error", value |-> 0, message |-> message, position |-> position]
Trap == [kind |-> "trap", value |-> 0, message |-> "", position |-> "none"]

\* values::value: an undef, an integer, a boolean, an array of values, a hash
\* (its key/value pairs in iteration order), or a variable, the reference $a.
Undef == [type |-> "undef", int |-> 0, elements |-> <<>>]
Integer(n) == [type |-> "integer", int |-> n, elements |-> <<>>]
Boolean(b) == [type |-> "boolean", int |-> IF b THEN 1 ELSE 0, elements |-> <<>>]
Array(elements) == [type |-> "array", int |-> 0, elements |-> elements]
Hash(pairs) == [type |-> "hash", int |-> 0, elements |-> pairs]
Variable == [type |-> "variable", int |-> 0, elements |-> <<>>]

\* A string as a value: its characters.
String(s) == [type |-> "string", int |-> 0, elements |-> s]

Pair(key, value) == [key |-> key, value |-> value]

\* The operands explored: scalars, arrays of scalars and of an array, hashes.
Scalars == {Integer(1), Integer(2)}
SequencesOf(S) == UNION { [1..n -> S] : n \in 0..MaxElements }
Arrays == { Array(elements) : elements \in SequencesOf(Scalars \cup {Array(<<Integer(1)>>)}) }
Hashes ==
    { Hash(<<>>), Hash(<<Pair(Integer(1), Integer(2))>>) } \cup
    { Hash(<<Pair(Integer(1), v), Pair(Integer(2), w)>>) : v \in Scalars, w \in Scalars }
Values == Scalars \cup Arrays \cup Hashes

NoEvaluation == [op |-> "none", left |-> 0, right |-> 0, result |-> Value(0)]

EvalInit ==
    /\ evaluation = NoEvaluation
    /\ bound = Undef
    /\ yielded = <<>>
    /\ assigned = Undef

\* No operator or function has been called yet: a behaviour evaluates one call.
Ready == evaluation.op = "none"

\* int64_t / int64_t of the machine: the quotient truncated toward zero; the
\* overflowing division is undefined and traps or wraps around.
machine_divide(left, right) ==
    IF left = IntMin /\ right = -1 THEN {Trap, Value(IntMin)}
    ELSE LET q == Abs(left) \div Abs(right)
         IN {Value(IF (left < 0) # (right < 0) THEN -q ELSE q)}

\* divide_visitor without the test for the overflow.
divide_unchecked(left, right) ==
    IF right = 0 THEN {EvaluationError("cannot divide by zero.", "right")}
    ELSE machine_divide(left, right)

\* divide_visitor::operator()(int64_t, int64_t): the set of its possible results.
divide(left, right) ==
    IF right = 0 THEN {EvaluationError("cannot divide by zero.", "right")}
    ELSE IF left = IntMin /\ right = -1
       THEN {EvaluationError("division results in an arithmetic overflow.", "left")}
    ELSE machine_divide(left, right)

Divide(left, right) ==
    /\ Ready
    /\ \E result \in divide(left, right) :
          evaluation' = [op |-> "divide", left |-> left, right |-> right, result |-> result]

\* The int64_t an arithmetic result wraps around to.
wrap(n) == ((n - IntMin) % Pow2(IntBits)) + IntMin

\* -n of the machine.
negate(n) == wrap(-n)

\* Whether the machine defines a shift by this count.
valid_shift_count(count) == count >= 0 /\ count < IntBits

\* n << count of the machine: the product wraps around; a count that is negative
\* or not less than the width is undefined, and yields 0 or the shift by the
\* count's low bits.
machine_shift_left(n, count) ==
    IF valid_shift_count(count) THEN {Value(wrap(n * Pow2(count)))}
    ELSE {Value(0), Value(wrap(n * Pow2(count % IntBits)))}

\* n >> count of the machine, likewise.
machine_shift_right(n, count) ==
    IF valid_shift_count(count) THEN {Value(n \div Pow2(count))}
    ELSE {Value(IF n < 0 THEN -1 ELSE 0), Value(n \div Pow2(count % IntBits))}

\* -(results)
negated(results) == { Value(negate(r.value)) : r \in results }

\* left_shift_visitor::operator()(int64_t, int64_t): the set of its possible results.
left_shift(left, right) ==
    IF right < 0 /\ left < 0 THEN negated(machine_shift_right(negate(left), negate(right)))
    ELSE IF right < 0 THEN machine_shift_right(left, negate(right))
    ELSE IF left < 0 THEN negated(machine_shift_left(negate(left), right))
    ELSE machine_shift_left(left, right)

LeftShift(left, right) ==
    /\ Ready
    /\ \E result \in left_shift(left, right) :
          evaluation' = [op |-> "left_shift", left |-> left, right |-> right, result |-> result]

\* values::dereference: the value a variable refers to, else the value itself.
dereference(v) == IF v.type = "variable" THEN bound ELSE v

\* mutate that hands out the variable's own value instead of a copy of it.
mutate_shared(v) == [value |-> dereference(v), shared |-> v.type = "variable"]

\* values::mutate: the value an operation may change, a copy of the variable's
\* value or the operand itself moved; shared tells whether it is the storage of
\* the variable's binding.
mutate(v) == [value |-> dereference(v), shared |-> FALSE]

\* The binding after an operation has changed and moved from the value it worked on.
after_mutation(m, moved_from) == IF m.shared THEN moved_from ELSE bound

\* scope::set of $a, once.
Bind(value) ==
    /\ Ready
    /\ bound = Undef
    /\ bound' = value
    /\ assigned' = value
    /\ UNCHANGED <<evaluation, yielded>>

\* The array overload of left_shift_visitor adding the elements of an array operand.
array_concatenate(left, right) ==
    IF right.type = "array" THEN Array(left.elements \o right.elements)
    ELSE Array(Append(left.elements, right))

\* left_shift_visitor::operator()(values::array&, Right&)
array_append(left, right) == Array(Append(left.elements, right))

\* left_shift::operator() on an array: both operands go through mutate.
ArrayLeftShift(left, right) ==
    /\ Ready
    /\ dereference(left).type = "array"
    /\ dereference(right).type # "undef"
    /\ LET l == mutate(left)
           r == mutate(right)
       IN /\ evaluation' = [op |-> "array_left_shift", left |-> left, right |-> right,
                            result |-> Value(array_append(l.value, r.value))]
          /\ bound' = after_mutation(l, Array(<<>>))
          /\ UNCHANGED <<yielded, assigned>>

\* values::is_truthy: every value but undef and false.
is_truthy(val) == val.type # "undef" /\ val # Boolean(FALSE)

\* values::is_true: the value is the boolean true.
is_true(val) == val.type = "boolean" /\ val.int = 1

\* The lambdas explored, by what their body returns for the value they are
\* given (the last argument, or the last element of it when it is an array):
\* whether it is greater than one, true, false, or the value itself.
Lambdas == {"greater_than_one", "true", "false", "value"}

\* call_context::yield: the value the lambda returns for the arguments.
yield(lambda, arguments) ==
    LET last == arguments[Len(arguments)]
        v == IF last.type = "array" THEN last.elements[Len(last.elements)] ELSE last
    IN CASE lambda = "greater_than_one" -> Boolean(v.type = "integer" /\ v.int > 1)
         [] lambda = "true" -> Boolean(TRUE)
         [] lambda = "false" -> Boolean(FALSE)
         [] lambda = "value" -> v

\* A value that was moved from: a container is left empty.
moved_from(v) == IF v.type \in {"array", "hash"} THEN [v EXCEPT !.elements = <<>>] ELSE v

\* filter_visitor::operator()(values::array&), from index i on: the elements
\* kept, the arguments yielded, and the argument's elements as the loop leaves them.
RECURSIVE filter_array(_, _, _, _)
filter_array(elements, lambda, count, i) ==
    IF i > Len(elements) THEN [result |-> <<>>, yielded |-> <<>>, left |-> <<>>]
    ELSE LET arguments == IF count = 1 THEN <<elements[i]>>
                          ELSE <<Integer(i - 1), elements[i]>>
             keep == is_true(yield(lambda, arguments))
             rest == filter_array(elements, lambda, count, i + 1)
         IN [result |-> (IF keep THEN <<elements[i]>> ELSE <<>>) \o rest.result,
             yielded |-> <<arguments>> \o rest.yielded,
             left |-> <<IF keep THEN moved_from(elements[i]) ELSE elements[i]>> \o rest.left]

\* filter_visitor::operator()(values::hash&), likewise over the pairs.
RECURSIVE filter_hash(_, _, _, _)
filter_hash(pairs, lambda, count, i) ==
    IF i > Len(pairs) THEN [result |-> <<>>, yielded |-> <<>>, left |-> <<>>]
    ELSE LET arguments == IF count = 1 THEN << Array(<<pairs[i].key, pairs[i].value>>) >>
                          ELSE <<pairs[i].key, pairs[i].value>>
             keep == is_true(yield(lambda, arguments))
             rest == filter_hash(pairs, lambda, count, i + 1)
         IN [result |-> (IF keep THEN <<pairs[i]>> ELSE <<>>) \o rest.result,
             yielded |-> <<arguments>> \o rest.yielded,
             left |-> <<IF keep THEN Pair(pairs[i].key, moved_from(pairs[i].value))
                        ELSE pairs[i]>> \o rest.left]

\* filter::operator() with one argument, an array or a hash, and a lambda of one
\* or two parameters: the argument goes through mutate, then to the visitor.
Filter(argument, lambda, count) ==
    /\ Ready
    /\ dereference(argument).type \in {"array", "hash"}
    /\ LET m == mutate(argument)
           f == IF m.value.type = "array"
                   THEN filter_array(m.value.elements, lambda, count, 1)
                   ELSE filter_hash(m.value.elements, lambda, count, 1)
       IN /\ evaluation' = [op |-> "filter", left |-> argument,
                            right |-> [lambda |-> lambda, count |-> count],
                            result |-> Value([m.value EXCEPT !.elements = f.result])]
          /\ yielded' = f.yielded
          /\ bound' = after_mutation(m, [m.value EXCEPT !.elements = f.left])
          /\ UNCHANGED assigned

\* filter_visitor::operator()(string const&), from index i on: one string per
\* character.
RECURSIVE filter_string(_, _, _, _)
filter_string(characters, lambda, count, i) ==
    IF i > Len(characters) THEN [result |-> <<>>, yielded |-> <<>>, left |-> <<>>]
    ELSE LET value == String(<<characters[i]>>)
             arguments == IF count = 1 THEN <<value>> ELSE <<Integer(i - 1), value>>
             keep == is_true(yield(lambda, arguments))
             rest == filter_string(characters, lambda, count, i + 1)
         IN [result |-> (IF keep THEN <<value>> ELSE <<>>) \o rest.result,
             yielded |-> <<arguments>> \o rest.yielded,
             left |-> <<characters[i]>> \o rest.left]

\* The arguments filter is called with: none, one or two of an array, a hash, a
\* string, undef and the variable.
FilterOperands ==
    { Array(<<Integer(1), Integer(2)>>),
      Hash(<<Pair(Integer(1), Integer(2)), Pair(Integer(2), Integer(1))>>),
      String(<<97, 98>>), Undef, Variable }
FilterArguments == UNION { [1..n -> FilterOperands] : n \in 0..2 }

\* filter_visitor on the argument: the result, the arguments yielded, and the
\* argument as the visitor leaves it.
filter_visitor(argument, lambda, count) ==
    CASE argument.type = "array" ->
            LET f == filter_array(argument.elements, lambda, count, 1)
            IN [result |-> Value(Array(f.result)), yielded |-> f.yielded,
                left |-> Array(f.left)]
      [] argument.type = "hash" ->
            LET f == filter_hash(argument.elements, lambda, count, 1)
            IN [result |-> Value(Hash(f.result)), yielded |-> f.yielded,
                left |-> Hash(f.left)]
      [] argument.type = "string" ->
            LET f == filter_string(argument.elements, lambda, count, 1)
            IN [result |-> Value(Array(f.result)), yielded |-> f.yielded,
                left |-> argument]
      [] OTHER ->
            [result |-> EvaluationError("expected enumerable type for first argument",
                                        "argument 0"),
             yielded |-> <<>>, left |-> argument]

\* filter::operator() without the check of the lambda's parameter count.
filter_unchecked_parameters(arguments, lambda_given, lambda, count) ==
    IF Len(arguments) # 1
    THEN [result |-> EvaluationError("expected 1 argument to 'filter' function",
                                     IF Len(arguments) > 1 THEN "argument 1" ELSE "call"),
          yielded |-> <<>>, shared |-> FALSE, left |-> Undef]
    ELSE IF ~lambda_given
    THEN [result |-> EvaluationError("expected a lambda to 'filter' function", "call"),
          yielded |-> <<>>, shared |-> FALSE, left |-> Undef]
    ELSE LET m == mutate(arguments[1])
             f == filter_visitor(m.value, lambda, count)
         IN [result |-> f.result, yielded |-> f.yielded, shared |-> m.shared, left |-> f.left]

\* filter::operator()(call_context&): the checks of the call, then the visitor on
\* the argument that went through mutate.
filter(arguments, lambda_given, lambda, count) ==
    IF Len(arguments) # 1
    THEN [result |-> EvaluationError("expected 1 argument to 'filter' function",
                                     IF Len(arguments) > 1 THEN "argument 1" ELSE "call"),
          yielded |-> <<>>, shared |-> FALSE, left |-> Undef]
    ELSE IF ~lambda_given
    THEN [result |-> EvaluationError("expected a lambda to 'filter' function", "call"),
          yielded |-> <<>>, shared |-> FALSE, left |-> Undef]
    ELSE IF count = 0 \/ count > 2
    THEN [result |-> EvaluationError("expected 1 or 2 lambda parameters", "lambda"),
          yielded |-> <<>>, shared |-> FALSE, left |-> Undef]
    ELSE LET m == mutate(arguments[1])
             f == filter_visitor(m.value, lambda, count)
         IN [result |-> f.result, yielded |-> f.yielded, shared |-> m.shared, left |-> f.left]

\* A call of filter with any number of arguments, with or without a lambda.
FilterCall(arguments, lambda_given, lambda, count) ==
    /\ Ready
    /\ LET f == filter(arguments, lambda_given, lambda, count)
       IN /\ evaluation' = [op |-> "filter_call", left |-> arguments,
                            right |-> [lambda |-> lambda, count |-> count,
                                       lambda_given |-> lambda_given],
                            result |-> f.result]
          /\ yielded' = f.yielded
          /\ bound' = IF f.shared THEN f.left ELSE bound
          /\ UNCHANGED assigned

\* Strings are sequences of character codes. The characters compared: A, _, a, b.
Characters == {65, 95, 97, 98}
ComparedStrings == UNION { [1..n -> Characters] : n \in 0..MaxChars }

\* std::toupper in the classic locale.
to_upper(c) == IF c >= 97 /\ c <= 122 THEN c - 32 ELSE c

\* boost::is_iless and boost::is_iequal
is_iless(c, d) == to_upper(c) < to_upper(d)
is_iequal(c, d) == to_upper(c) = to_upper(d)

\* std::lexicographical_compare with is_iless, from position i on.
RECURSIVE ilexicographical_compare_from(_, _, _)
ilexicographical_compare_from(left, right, i) ==
    IF i > Len(left) \/ i > Len(right) THEN i > Len(left) /\ i <= Len(right)
    ELSE IF is_iless(left[i], right[i]) THEN TRUE
    ELSE IF is_iless(right[i], left[i]) THEN FALSE
    ELSE ilexicographical_compare_from(left, right, i + 1)

\* boost::ilexicographical_compare
ilexicographical_compare(left, right) == ilexicographical_compare_from(left, right, 1)

\* std::lexicographical_compare, which tells the cases apart.
lexicographical_compare(left, right) ==
    \E i \in 1..(Len(right)) :
        /\ i <= Len(left) + 1
        /\ \A j \in 1..(i - 1) : left[j] = right[j]
        /\ IF i > Len(left) THEN TRUE ELSE left[i] < right[i]

\* boost::iequals
iequals(left, right) ==
    /\ Len(left) = Len(right)
    /\ \A i \in 1..Len(left) : is_iequal(left[i], right[i])

\* equality_visitor::operator()(string const&, string const&)
equals_string(left, right) == iequals(left, right)

\* less_equal_visitor on strings with the comparison that tells the cases apart.
less_equal_string_case_sensitive(left, right) ==
    lexicographical_compare(left, right) \/ iequals(left, right)

\* less_equal_visitor::operator()(string const&, string const&)
less_equal_string(left, right) ==
    ilexicographical_compare(left, right) \/ iequals(left, right)

LessEqualStrings(left, right) ==
    /\ Ready
    /\ evaluation' = [op |-> "less_equal_string", left |-> left, right |-> right,
                      result |-> Value(Boolean(less_equal_string(left, right)))]
    /\ UNCHANGED <<bound, yielded, assigned>>

\* values::type: some types of the type system, and the type each one narrows.
Types == {"Any", "Scalar", "Numeric", "Integer", "Integer[1,2]", "String", "Array"}
Narrows ==
    [t \in Types |-> CASE t = "Integer[1,2]" -> "Integer"
                       [] t = "Integer" -> "Numeric"
                       [] t = "Numeric" -> "Scalar"
                       [] t = "String" -> "Scalar"
                       [] OTHER -> "Any"]

\* Type::is_specialization(other) of a type t: other is a specialization of t,
\* as t.is_instance(value) tells that value is an instance of t.
RECURSIVE type_is_specialization(_, _)
type_is_specialization(t, other) ==
    IF other = "Any" THEN FALSE
    ELSE Narrows[other] = t \/ type_is_specialization(t, Narrows[other])

\* values::is_specialization(first, second): first.is_specialization(second)
is_specialization(first, second) == type_is_specialization(first, second)

\* less_equal_visitor on types with the operands of is_specialization exchanged.
less_equal_type_exchanged(left, right) == left = right \/ is_specialization(left, right)

\* less_equal_visitor::operator()(type const&, type const&)
less_equal_type(left, right) == left = right \/ is_specialization(right, left)

LessEqualTypes(left, right) ==
    /\ Ready
    /\ evaluation' = [op |-> "less_equal_type", left |-> left, right |-> right,
                      result |-> Value(Boolean(less_equal_type(left, right)))]
    /\ UNCHANGED <<bound, yielded, assigned>>

\* The characters of the strings that are split: the comma and a.
SplitCharacters == {44, 97}
SplitStrings == UNION { [1..n -> SplitCharacters] : n \in 0..MaxSplitChars }
Delimiters == UNION { [1..n -> SplitCharacters] : n \in 0..MaxDelimiterChars }

\* boost::first_finder(second, is_equal()) from position pos on: the position
\* of the first occurrence of second, or 0.
first_finder(first, second, pos) ==
    LET matches == { i \in pos..(Len(first) - Len(second) + 1) :
                        SubSeq(first, i, i + Len(second) - 1) = second }
    IN IF matches = {} THEN 0 ELSE CHOOSE i \in matches : \A j \in matches : i <= j

\* boost::split_iterator: the ranges between the occurrences, from pos on.
RECURSIVE split_iterator(_, _, _)
split_iterator(first, second, pos) ==
    LET match == first_finder(first, second, pos)
    IN IF match = 0 THEN << SubSeq(first, pos, Len(first)) >>
       ELSE << SubSeq(first, pos, match - 1) >>
                \o split_iterator(first, second, match + Len(second))

\* split_visitor::split_empty: one string per character.
split_empty(str) == [i \in 1..Len(str) |-> String(<<str[i]>>)]

\* split_visitor::operator()(string const&, string const&): the loop passes over
\* a range that is empty (!*it).
split(first, second) ==
    IF second = <<>> THEN Array(split_empty(first))
    ELSE LET ranges == SelectSeq(split_iterator(first, second, 1), LAMBDA r : r # <<>>)
         IN Array([i \in 1..Len(ranges) |-> String(ranges[i])])

Split(first, second) ==
    /\ Ready
    /\ evaluation' = [op |-> "split", left |-> first, right |-> second,
                      result |-> Value(split(first, second))]
    /\ UNCHANGED <<bound, yielded, assigned>>

\* A long double and a values::type as values (the floats of the model are whole
\* numbers, the type is one of Types).
Float(n) == [type |-> "float", int |-> n, elements |-> <<>>]
TypeValue(t) == [type |-> "type", int |-> 0, elements |-> t]

\* The operands of an operator: a value of every kind, and the variable.
Operands ==
    { Undef, Boolean(TRUE), Integer(0), Integer(1), Float(0), Float(2), String(<<97>>),
      TypeValue("Integer"), Array(<<Integer(1)>>), Hash(<<>>), Variable }

Numeric == {"integer", "float"}

\* The results of an overload on int64_t as values.
integers(results) ==
    { IF r.kind = "value" THEN Value(Integer(r.value)) ELSE r : r \in results }

\* divide_visitor::operator()(long double, long double), on floats whose quotient
\* neither overflows nor underflows.
divide_float(left, right) ==
    IF right = 0 THEN {EvaluationError("cannot divide by zero.", "right")}
    ELSE {Value(Float(left \div right))}

\* divide_visitor that looks at the right operand's type first.
divide_visitor_right_first(left, right) ==
    IF right.type \notin Numeric
    THEN {EvaluationError("expected Numeric for arithmetic division", "right")}
    ELSE IF left.type \notin Numeric
    THEN {EvaluationError("expected Numeric for arithmetic division", "left")}
    ELSE IF left.type = "integer" /\ right.type = "integer"
    THEN integers(divide(left.int, right.int))
    ELSE divide_float(left.int, right.int)

\* divide_visitor: the overload boost::apply_visitor selects for the operands.
divide_visitor(left, right) ==
    IF left.type = "integer" /\ right.type = "integer"
    THEN integers(divide(left.int, right.int))
    ELSE IF left.type \in Numeric /\ right.type \in Numeric
    THEN divide_float(left.int, right.int)
    ELSE IF left.type \in Numeric
    THEN {EvaluationError("expected Numeric for arithmetic division", "right")}
    ELSE {EvaluationError("expected Numeric for arithmetic division", "left")}

\* divide::operator()(binary_context&)
DivideOperator(left, right) ==
    /\ Ready
    /\ \E result \in divide_visitor(dereference(left), dereference(right)) :
          evaluation' = [op |-> "divide_operator", left |-> left, right |-> right,
                         result |-> result]
    /\ UNCHANGED <<bound, yielded, assigned>>

\* less_equal_visitor: the overload boost::apply_visitor selects for the operands.
less_equal_visitor(left, right) ==
    IF left.type \in Numeric /\ right.type \in Numeric
    THEN Value(Boolean(left.int <= right.int))
    ELSE IF left.type = "string" /\ right.type = "string"
    THEN Value(Boolean(less_equal_string(left.elements, right.elements)))
    ELSE IF left.type = "type" /\ right.type = "type"
    THEN Value(Boolean(less_equal_type(left.elements, right.elements)))
    ELSE IF left.type \in Numeric
    THEN EvaluationError("expected Numeric for comparison", "right")
    ELSE IF left.type = "string"
    THEN EvaluationError("expected String for comparison", "right")
    ELSE IF left.type = "type"
    THEN EvaluationError("expected Type for comparison", "right")
    ELSE EvaluationError("expected Numeric, String, or Type for comparison", "left")

\* less_equal::operator()(binary_context&)
LessEqualOperator(left, right) ==
    /\ Ready
    /\ evaluation' = [op |-> "less_equal_operator", left |-> left, right |-> right,
                      result |-> less_equal_visitor(dereference(left), dereference(right))]
    /\ UNCHANGED <<bound, yielded, assigned>>

\* left_shift_visitor: the overload boost::apply_visitor selects for the operands.
left_shift_visitor(left, right) ==
    IF left.type = "integer" /\ right.type = "integer"
    THEN integers(left_shift(left.int, right.int))
    ELSE IF left.type = "array"
    THEN {Value(array_append(left, right))}
    ELSE IF left.type = "integer"
    THEN {EvaluationError("expected Integer for bitwise left shift", "right")}
    ELSE {EvaluationError("expected Integer for bitwise left shift", "left")}

\* left_shift::operator()(binary_context&): both operands go through mutate.
LeftShiftOperator(left, right) ==
    /\ Ready
    /\ LET l == mutate(left)
           r == mutate(right)
       IN /\ \E result \in left_shift_visitor(l.value, r.value) :
                evaluation' = [op |-> "left_shift_operator", left |-> left, right |-> right,
                               result |-> result]
          /\ bound' = IF l.value.type = "array" THEN after_mutation(l, Array(<<>>)) ELSE bound
          /\ UNCHANGED <<yielded, assigned>>

----------------------------------------------------------------------------
(* Functions on values *)

\* types::resource: a type name and a title.
Resource(type_name, title) == [type_name |-> type_name, title |-> title]

\* A string operand of a relationship, with what types::resource::parse returns
\* for it: <<>> for none, else the resource in a tuple.
ResourceString(parsed) == [type |-> "string", parsed |-> parsed]

\* values::type holding a types::resource, a types::klass or another type.
ResourceType(resource, fully_qualified) ==
    [type |-> "type", kind |-> "resource", resource |-> resource,
     fully_qualified |-> fully_qualified]
KlassType(title) == [type |-> "type", kind |-> "klass", title |-> title]
OtherType == [type |-> "type", kind |-> "integer"]

\* The operands of a relationship that are explored: every kind of value that
\* is not an array, arrays of them, and arrays holding such arrays.
RelationshipLeaves ==
    { Undef, Integer(1), OtherType,
      ResourceString(<<>>), ResourceString(<<Resource("file", "a")>>),
      ResourceType(Resource("file", "a"), TRUE), ResourceType(Resource("file", ""), FALSE),
      KlassType("c"), KlassType("") }
InnerArrays ==
    { Array(<<>>),
      Array(<<ResourceString(<<Resource("file", "a")>>)>>),
      Array(<<Undef, KlassType("c")>>),
      Array(<<ResourceType(Resource("file", "a"), TRUE), Integer(1)>>) }
RelationshipOperands ==
    RelationshipLeaves \cup
    { Array(elements) : elements \in SequencesOf(RelationshipLeaves \cup InnerArrays) }

\* The calls each_resource makes, in order.
Callback(resource) == [callback |-> "callback", argument |-> resource]
Error(value) == [callback |-> "error", argument |-> value]

\* each_resource on a value that is not an array: the string, type and fall
\* through branches.
each_value(value, on_error) ==
    LET report == IF on_error THEN <<Error(value)>> ELSE <<>>
    IN CASE value.type = "string" ->
               IF value.parsed = <<>> THEN report ELSE <<Callback(value.parsed[1])>>
         [] value.type = "type" ->
               IF value.kind = "resource" /\ value.fully_qualified
               THEN <<Callback(value.resource)>>
               ELSE IF value.kind = "klass" /\ value.title # ""
               THEN <<Callback(Resource("class", value.title))>>
               ELSE report
         [] OTHER -> report

RECURSIVE each_resource(_, _)
RECURSIVE each_element(_, _)

\* each_resource whose traversal of an array ends at the first element that is
\* reported to the error callback.
each_resource_stopping(value, on_error) ==
    IF value.type = "array"
    THEN LET calls == each_element(value.elements, on_error)
             errors == { i \in 1..Len(calls) : calls[i].callback = "error" }
         IN IF errors = {} THEN calls
            ELSE SubSeq(calls, 1, CHOOSE i \in errors : \A j \in errors : i <= j)
    ELSE each_value(value, on_error)

\* values::each_resource; on_error tells whether an error callback was given.
each_resource(value, on_error) ==
    IF value.type = "array" THEN each_element(value.elements, on_error)
    ELSE each_value(value, on_error)

\* The loop of each_resource over the elements of an array.
each_element(elements, on_error) ==
    IF elements = <<>> THEN <<>>
    ELSE each_resource(Head(elements), on_error) \o each_element(Tail(elements), on_error)

EachResource(value, on_error) ==
    /\ Ready
    /\ evaluation' = [op |-> "each_resource", left |-> value, right |-> on_error,
                      result |-> Value(each_resource(value, on_error))]
    /\ UNCHANGED <<bound, yielded, assigned>>

\* Arrays of [K, V] arrays with distinct keys.
PairArrays ==
    { Array(elements) : elements \in
        { pairs \in SequencesOf({ Array(<<k, v>>) : k \in Scalars, v \in Scalars }) :
            \A i \in 1..Len(pairs) : \A j \in 1..Len(pairs) :
                i # j => pairs[i].elements[1] # pairs[j].elements[1] } }

\* The conversion of an array of [K, V] arrays with distinct keys to a hash:
\* one entry per element, entered in the order of the elements.
to_hash(array) ==
    Hash([i \in 1..Len(array.elements) |->
            Pair(array.elements[i].elements[1], array.elements[i].elements[2])])

\* The values converted to an array.
ConvertedValues ==
    Values \cup {Undef, Boolean(TRUE)} \cup PairArrays \cup { to_hash(x) : x \in PairArrays }

\* to_array that turns the entries of a hash into elements from the last entry
\* to the first.
to_array_reversed(val, convert_hash) ==
    IF val.type = "array" THEN val
    ELSE IF convert_hash /\ val.type = "hash"
    THEN Array([i \in 1..Len(val.elements) |->
                  Array(<<val.elements[Len(val.elements) + 1 - i].key,
                          val.elements[Len(val.elements) + 1 - i].value>>)])
    ELSE IF val.type # "undef" THEN Array(<<val>>)
    ELSE Array(<<>>)

\* values::to_array
to_array(val, convert_hash) ==
    IF val.type = "array" THEN val
    ELSE IF convert_hash /\ val.type = "hash"
    THEN Array([i \in 1..Len(val.elements) |->
                  Array(<<val.elements[i].key, val.elements[i].value>>)])
    ELSE IF val.type # "undef" THEN Array(<<val>>)
    ELSE Array(<<>>)

ToArray(val, convert_hash) ==
    /\ Ready
    /\ evaluation' = [op |-> "to_array", left |-> val, right |-> convert_hash,
                      result |-> Value(to_array(val, convert_hash))]
    /\ UNCHANGED <<bound, yielded, assigned>>

\* The letters, for boost::algorithm::to_lower in the classic locale.
UpperCase == <<"A", "B", "C", "D", "E", "F", "G", "H", "I", "J", "K", "L", "M",
               "N", "O", "P", "Q", "R", "S", "T", "U", "V", "W", "X", "Y", "Z">>
LowerCase == <<"a", "b", "c", "d", "e", "f", "g", "h", "i", "j", "k", "l", "m",
               "n", "o", "p", "q", "r", "s", "t", "u", "v", "w", "x", "y", "z">>
to_lower(value) ==
    [i \in 1..Len(value) |->
        IF \E k \in 1..26 : UpperCase[k] = value[i]
        THEN LowerCase[CHOOSE k \in 1..26 : UpperCase[k] = value[i]]
        ELSE value[i]]

\* operator<<(ostream&, logging::level): the printed names, by level value.
strings ==
    << <<"D", "e", "b", "u", "g">>,
       <<"I", "n", "f", "o">>,
       <<"N", "o", "t", "i", "c", "e">>,
       <<"W", "a", "r", "n", "i", "n", "g">>,
       <<"E", "r", "r", "o", "r">>,
       <<"A", "l", "e", "r", "t">>,
       <<"E", "m", "e", "r", "g", "e", "n", "c", "y">>,
       <<"C", "r", "i", "t", "i", "c", "a", "l">> >>
print_level(level) == strings[LevelValue(level) + 1]

\* The result of operator>>: the level after the call, in a value when the
\* operator returned and in an error when it threw.
InvalidLogLevel(level) ==
    [kind |-> "error", value |-> level, message |-> "invalid log level", position |-> "none"]

\* The comparisons of operator>> on the word as it was read.
match_level(value, level) ==
    CASE value = <<"d", "e", "b", "u", "g">> -> Value("debug")
      [] value = <<"i", "n", "f", "o">> -> Value("info")
      [] value = <<"n", "o", "t", "i", "c", "e">> -> Value("notice")
      [] value = <<"w", "a", "r", "n", "i", "n", "g">> -> Value("warning")
      [] value = <<"e", "r", "r">> \/ value = <<"e", "r", "r", "o", "r">> -> Value("error")
      [] value = <<"a", "l", "e", "r", "t">> -> Value("alert")
      [] value = <<"e", "m", "e", "r", "g">>
            \/ value = <<"e", "m", "e", "r", "g", "e", "n", "c", "y">> -> Value("emergency")
      [] value = <<"c", "r", "i", "t">> \/ value = <<"c", "r", "i", "t", "i", "c", "a", "l">> -> Value("critical")
      [] OTHER -> InvalidLogLevel(level)

\* operator>> without the conversion to lower case.
read_level_case_sensitive(word, level) == match_level(word, level)

\* operator>>(istream&, logging::level&): the word read from the stream (the
\* empty word when there is none) and the level it is read into.
read_level(word, level) == match_level(to_lower(word), level)

\* The words read: a sequence of characters each.
ReadWords ==
    { <<"D", "e", "b", "u", "g">>,
      <<"I", "N", "F", "O">>,
      <<"n", "o", "t", "i", "c", "e">>,
      <<"N", "o", "t", "i", "c", "e">>,
      <<"w", "A", "r", "N", "i", "N", "g">>,
      <<"E", "r", "r", "o", "r">>,
      <<"E", "R", "R">>,
      <<"e", "r", "r">>,
      <<"a", "l", "e", "r", "t">>,
      <<"A", "l", "e", "r", "t">>,
      <<"e", "m", "e", "r", "g">>,
      <<"E", "m", "e", "r", "g", "e", "n", "c", "y">>,
      <<"E", "M", "E", "R", "G", "E", "N", "C", "Y">>,
      <<"c", "r", "i", "t">>,
      <<"C", "r", "i", "t", "i", "c", "a", "l">>,
      <<"c", "r", "i", "t", "i", "c", "a", "l">>,
      <<>>,
      <<"w", "a", "r", "n">>,
      <<"f", "a", "t", "a", "l">>,
      <<"e", "r", "r", "o", "r", "s">>,
      <<"d", "e", "b", "u">>,
      <<"e", "m", "e", "r", "g", "e", "n", "c", "i", "e", "s">> }

ReadLevel(word, level) ==
    /\ Ready
    /\ evaluation' = [op |-> "read_level", left |-> word, right |-> level,
                      result |-> read_level(word, level)]
    /\ UNCHANGED <<bound, yielded, assigned>>

----------------------------------------------------------------------------
(* The grammar *)

\* catalog_expression with the resource expression among its alternatives.
catalog_expression_with_resources == {"collection_expression", "resource_expression"}

\* catalog_expression: everything but collection expressions is statement-level
\* only.
catalog_expression == {"collection_expression"}

\* The rules of the grammar: for each rule, the rules its definition invokes
\* (the tokens it matches itself are left out).
grammar ==
    [
      syntax_tree |-> {"statements"},
      statements |-> {"statement"},
      statement |-> {"statement_expression", "binary_statement"},
      statement_expression |-> {"resource_expression", "resource_defaults_expression",
          "resource_override_expression", "class_definition_expression",
          "defined_type_expression", "node_definition_expression",
          "statement_call_expression", "primary_expression"},
      binary_statement |-> {"binary_operator", "statement_expression"},
      expressions |-> {"expression"},
      expression |-> {"primary_expression", "binary_expression"},
      primary_expression |-> {"unary_expression", "catalog_expression",
          "control_flow_expression", "basic_expression", "expression",
          "postfix_subexpression"},
      basic_expression |-> {"undef", "defaulted", "boolean", "number", "string", "regex",
          "variable", "name", "bare_word", "type", "array", "hash"},
      undef |-> {},
      defaulted |-> {},
      boolean |-> {},
      number |-> {},
      string |-> {},
      regex |-> {},
      variable |-> {},
      name |-> {},
      bare_word |-> {},
      type |-> {},
      array |-> {"expressions"},
      hash |-> {"hash_pair"},
      hash_pair |-> {"expression"},
      control_flow_expression |-> {"case_expression", "if_expression", "unless_expression",
          "function_call_expression"},
      case_expression |-> {"expression", "case_proposition"},
      case_proposition |-> {"expressions", "statements"},
      if_expression |-> {"expression", "statements", "elsif_expression", "else_expression"},
      elsif_expression |-> {"expression", "statements"},
      else_expression |-> {"statements"},
      unless_expression |-> {"expression", "statements", "else_expression"},
      function_call_expression |-> {"name", "expressions", "lambda"},
      statement_call_expression |-> {"expressions", "lambda"},
      lambda |-> {"parameter", "statements"},
      parameter |-> {"type_expression", "variable", "expression"},
      catalog_expression |-> catalog_expression,
      resource_expression |-> {"resource_type", "resource_body"},
      resource_type |-> {"name", "type_expression"},
      resource_body |-> {"expression", "attribute_expression"},
      attribute_expression |-> {"attribute_name", "attribute_operator", "expression"},
      attribute_operator |-> {},
      attribute_name |-> {},
      resource_defaults_expression |-> {"type", "attribute_expression"},
      resource_override_expression |-> {"variable_type_expression", "attribute_expression"},
      class_definition_expression |-> {"name", "parameter", "statements"},
      defined_type_expression |-> {"name", "parameter", "statements"},
      node_definition_expression |-> {"hostname", "statements"},
      hostname |-> {"string", "defaulted", "regex", "name", "bare_word", "number"},
      collection_expression |-> {"type", "query", "binary_query_expression"},
      binary_query_expression |-> {"binary_query_operator", "query"},
      binary_query_operator |-> {},
      query |-> {"name", "attribute_query_operator", "attribute_query_value"},
      attribute_query_operator |-> {},
      attribute_query_value |-> {"variable", "string", "boolean", "number", "name"},
      unary_expression |-> {"primary_expression"},
      postfix_subexpression |-> {"selector_expression", "access_expression",
          "method_call_expression"},
      selector_expression |-> {"selector_case_expression"},
      selector_case_expression |-> {"expression"},
      access_expression |-> {"expressions"},
      method_call_expression |-> {"name", "expressions", "lambda"},
      binary_expression |-> {"binary_operator", "primary_expression"},
      binary_operator |-> {},
      type_expression |-> {"type", "type_access_expression"},
      variable_type_expression |-> {"type", "variable", "type_access_expression"},
      type_access_expression |-> {"access_expression"}
    ]

\* A new parser is about to match the start rule.
ParseInit == parsing = <<"syntax_tree">>

\* The rule being matched invokes a rule of its definition.
Invoke(rule) ==
    /\ parsing # <<>>
    /\ Len(parsing) < MaxRules
    /\ rule \in grammar[parsing[Len(parsing)]]
    /\ parsing' = Append(parsing, rule)

\* The rule being matched has matched (or failed) and returns to its invoker.
Return ==
    /\ parsing # <<>>
    /\ parsing' = SubSeq(parsing, 1, Len(parsing) - 1)

----------------------------------------------------------------------------
(* Specifications: one per component, over the same initial state *)

Init == ScanInit /\ ScopeInit /\ MainInit /\ EvalInit /\ ParseInit

\* The definition scanner and the catalog's registries.
Next ==
    \/ /\ \E context \in {"null", "no_body", "tree"} : StartScan(context)
       /\ UNCHANGED <<scopeVars, mainVars, evalVars, parseVars>>
    \/ /\ FinishScan
       /\ UNCHANGED <<scopeVars, mainVars, evalVars, parseVars>>
    \/ /\ \E kind \in {"undef", "default", "boolean", "number", "regex", "variable",
                       "name", "bare_word", "type"} : VisitLeaf(kind)
       /\ UNCHANGED <<scopeVars, mainVars, evalVars, parseVars>>
    \/ /\ \E interpolates \in {"nothing", "expression", "definition"} : VisitString(interpolates)
       /\ UNCHANGED <<scopeVars, mainVars, evalVars, parseVars>>
    \/ /\ \E kind \in {"array", "hash", "collection", "resource", "resource_override",
                       "resource_defaults"} : EnterNoClassScope(kind)
       /\ UNCHANGED <<scopeVars, mainVars, evalVars, parseVars>>
    \/ /\ \E kind \in {"case", "if", "unless", "function_call"} : EnterControlFlow(kind)
       /\ UNCHANGED <<scopeVars, mainVars, evalVars, parseVars>>
    \/ /\ \E kind \in {"unary", "expression", "selector", "access"} : EnterSubexpression(kind)
       /\ UNCHANGED <<scopeVars, mainVars, evalVars, parseVars>>
    \/ /\ EnterMethodCall
       /\ UNCHANGED <<scopeVars, mainVars, evalVars, parseVars>>
    \/ /\ Leave
       /\ UNCHANGED <<scopeVars, mainVars, evalVars, parseVars>>
    \/ /\ \E name \in NameValues, parent \in ParentValues,
             parameters \in ParameterLists, body \in BOOLEAN :
               VisitClassDefinition(name, parent, parameters, body)
       /\ UNCHANGED <<scopeVars, mainVars, evalVars, parseVars>>
    \/ /\ \E name \in NameValues, parameters \in ParameterLists, body \in BOOLEAN :
               VisitDefinedType(name, parameters, body)
       /\ UNCHANGED <<scopeVars, mainVars, evalVars, parseVars>>
    \/ /\ \E body \in BOOLEAN : VisitNodeDefinition(body)
       /\ UNCHANGED <<scopeVars, mainVars, evalVars, parseVars>>

Spec == Init /\ [][Next]_vars

\* The runtime scopes.
NextScope ==
    \/ /\ \E parent \in 1..Len(runtime_scopes) : ScopeCreate(parent)
       /\ UNCHANGED <<scanVars, mainVars, evalVars, parseVars>>
    \/ /\ \E s \in 1..Len(runtime_scopes), name \in ScopeNames, value \in ScopeValues :
             ScopeSet(s, name, value)
       /\ UNCHANGED <<scanVars, mainVars, evalVars, parseVars>>
    \/ /\ \E s \in 1..Len(runtime_scopes), name \in ScopeNames : ScopeGet(s, name)
       /\ UNCHANGED <<scanVars, mainVars, evalVars, parseVars>>

SpecScope == Init /\ [][NextScope]_vars

\* A logger under any sequence of calls.
NextLogger ==
    \/ /\ \E level \in LevelNames : LoggerLog(level)
       /\ UNCHANGED <<scanVars, scopeVars, main_pc, exit_status, failure, run, evalVars, parseVars>>
    \/ /\ \E level \in LevelNames : LoggerLevel(level)
       /\ UNCHANGED <<scanVars, scopeVars, main_pc, exit_status, failure, run, evalVars, parseVars>>
    \/ /\ LoggerReset
       /\ UNCHANGED <<scanVars, scopeVars, main_pc, exit_status, failure, run, evalVars, parseVars>>

SpecLogger == Init /\ [][NextLogger]_vars

\* One run of main.
NextMain ==
    \/ /\ \E outcome \in {"version", "help", "settings_exception", "no_manifests",
                          "exception", "ok"}, level \in LevelNames : MainSettings(outcome, level)
       /\ UNCHANGED <<scanVars, scopeVars, evalVars, parseVars>>
    \/ /\ \E level \in LevelNames : CompileLogs(level)
       /\ UNCHANGED <<scanVars, scopeVars, evalVars, parseVars>>
    \/ /\ \E outcome \in {"catalog", "compilation_exception", "yaml_parse_exception",
                          "settings_exception", "exception"} : CompileEnds(outcome)
       /\ UNCHANGED <<scanVars, scopeVars, evalVars, parseVars>>

SpecMain == Init /\ [][NextMain]_vars

\* The evaluation of one operator or function call on any operands.
NextEval ==
    \/ /\ Ready
       /\ \E left \in Int64, right \in Int64 : Divide(left, right)
       /\ UNCHANGED <<scanVars, scopeVars, mainVars, bound, yielded, assigned, parseVars>>
    \/ /\ Ready
       /\ \E left \in Int64, right \in Int64 : LeftShift(left, right)
       /\ UNCHANGED <<scanVars, scopeVars, mainVars, bound, yielded, assigned, parseVars>>
    \/ /\ Ready
       /\ \E value \in Arrays \cup Hashes : Bind(value)
       /\ UNCHANGED <<scanVars, scopeVars, mainVars, parseVars>>
    \/ /\ Ready
       /\ \E left \in Arrays \cup {Variable}, right \in Values \cup {Variable} :
             ArrayLeftShift(left, right)
       /\ UNCHANGED <<scanVars, scopeVars, mainVars, parseVars>>
    \/ /\ Ready
       /\ \E argument \in Arrays \cup Hashes \cup {Variable}, lambda \in Lambdas, count \in 1..2 :
             Filter(argument, lambda, count)
       /\ UNCHANGED <<scanVars, scopeVars, mainVars, parseVars>>
    \/ /\ Ready
       /\ \E left \in ComparedStrings, right \in ComparedStrings : LessEqualStrings(left, right)
       /\ UNCHANGED <<scanVars, scopeVars, mainVars, parseVars>>
    \/ /\ Ready
       /\ \E left \in Types, right \in Types : LessEqualTypes(left, right)
       /\ UNCHANGED <<scanVars, scopeVars, mainVars, parseVars>>
    \/ /\ Ready
       /\ \E first \in SplitStrings, second \in Delimiters : Split(first, second)
       /\ UNCHANGED <<scanVars, scopeVars, mainVars, parseVars>>
    \/ /\ Ready
       /\ \E left \in Operands, right \in Operands : DivideOperator(left, right)
       /\ UNCHANGED <<scanVars, scopeVars, mainVars, parseVars>>
    \/ /\ Ready
       /\ \E left \in Operands, right \in Operands : LessEqualOperator(left, right)
       /\ UNCHANGED <<scanVars, scopeVars, mainVars, parseVars>>
    \/ /\ Ready
       /\ \E left \in Operands, right \in Operands : LeftShiftOperator(left, right)
       /\ UNCHANGED <<scanVars, scopeVars, mainVars, parseVars>>
    \/ /\ Ready
       /\ \E arguments \in FilterArguments, lambda_given \in BOOLEAN, lambda \in Lambdas,
             count \in 0..3 : FilterCall(arguments, lambda_given, lambda, count)
       /\ UNCHANGED <<scanVars, scopeVars, mainVars, parseVars>>

SpecEval == Init /\ [][NextEval]_vars

\* Functions on values: one call per behaviour.
NextValues ==
    \/ /\ Ready
       /\ \E value \in RelationshipOperands, on_error \in BOOLEAN : EachResource(value, on_error)
       /\ UNCHANGED <<scanVars, scopeVars, mainVars, parseVars>>
    \/ /\ Ready
       /\ \E val \in ConvertedValues, convert_hash \in BOOLEAN : ToArray(val, convert_hash)
       /\ UNCHANGED <<scanVars, scopeVars, mainVars, parseVars>>
    \/ /\ Ready
       /\ \E word \in ReadWords, level \in LevelNames : ReadLevel(word, level)
       /\ UNCHANGED <<scanVars, scopeVars, mainVars, parseVars>>

SpecValues == Init /\ [][NextValues]_vars

\* The parser: rule invocations of the recursive-descent grammar.
NextParse ==
    \/ /\ \E rule \in DOMAIN grammar : Invoke(rule)
       /\ UNCHANGED <<scanVars, scopeVars, mainVars, evalVars>>
    \/ /\ Return
       /\ UNCHANGED <<scanVars, scopeVars, mainVars, evalVars>>

SpecParse == Init /\ [][NextParse]_vars

----------------------------------------------------------------------------
(* Properties of the scanner *)

\* The last step visited a class or defined-type definition.
VisitedDefinition == visited.def \in {"class", "defined_type"}

\* The definition visited in the last step was accepted: the scan goes on.
Accepted == pc # "failed"

SameClass(i, j) == classes[i].name = classes[j].name

\* C1, as claimed: all definitions registered for the same class name have an
\* identical declared parent (a definition without `inherits` declares none).
C1_IdenticalParentAcrossDefinitions ==
    \A i, j \in 1..Len(classes) : SameClass(i, j) => classes[i].parent = classes[j].parent

\* The definitions of one class that declare a parent declare the same one.
C1_DeclaredParentsAgree ==
    \A i, j \in 1..Len(classes) :
        (SameClass(i, j) /\ classes[i].parent # <<>> /\ classes[j].parent # <<>>)
            => classes[i].parent = classes[j].parent

\* A step that visits a class definition whose parent differs from the parent
\* declared by a registered definition of that class throws and registers nothing.
C1_ConflictingParentRejected ==
    (/\ pc = "scanning"
     /\ visited'.def = "class"
     /\ visited'.parent # <<>>
     /\ \E i \in 1..Len(classes) :
           /\ classes[i].name = qualify(visited'.name)
           /\ classes[i].parent # <<>>
           /\ classes[i].parent # visited'.parent)
    => (pc' = "failed" /\ classes' = classes)

\* C1, amended: the definitions of a class that declare a parent all declare the
\* same parent (definitions without `inherits` are accepted beside them), and a
\* class definition whose `inherits` parent differs from the parent declared by a
\* registered definition of the class is rejected with an error and not registered.
C1_ConsistentParents == []C1_DeclaredParentsAgree /\ [][C1_ConflictingParentRejected]_vars

\* C1 witness: a class registered with parent b, and a definition of it with
\* another parent just rejected for that.
C1_Witness ==
    /\ pc = "failed"
    /\ error.kind = "parent_conflict"
    /\ visited.parent = << <<"c">> >>
    /\ \E i \in 1..Len(classes) : classes[i].parent = << <<"b">> >>

\* C2: a class or defined-type definition is accepted only at top level or
\* directly in the body of a class.
C2_DefinitionsOnlyAtTopLevelOrInClass ==
    (VisitedDefinition /\ Accepted) => visited.where \in {"top", "class_body"}

\* C3: no qualified name is registered both as a class and as a defined type;
\* the definition that would make it so throws, whichever kind came first.
C3_NoClassIsDefinedType ==
    /\ \A i \in 1..Len(classes), j \in 1..Len(defined_types) :
          classes[i].name # defined_types[j]
    /\ error.kind = "was_defined_type" => (visited.def = "class" /\ defined_types # <<>>)
    /\ error.kind = "was_class" => (visited.def = "defined_type" /\ classes # <<>>)

\* C3 witness: a defined type of the name of a registered class was just rejected.
C3_Witness ==
    /\ pc = "failed"
    /\ error.kind = "was_class"
    /\ visited.def = "defined_type"
    /\ \E i \in 1..Len(classes) : classes[i].name = visited.name

\* C4: when a scan returns, every definition of the tree has been registered.
C4_EveryDefinitionRegistered == pc = "done" => ~unscanned

ReservedNames == { <<"main">>, <<"settings">> }

\* No class or defined type named main or settings is registered.
C5_NoReservedNameRegistered ==
    /\ \A i \in 1..Len(classes) : classes[i].name \notin ReservedNames
    /\ \A j \in 1..Len(defined_types) : defined_types[j] \notin ReservedNames

\* The last step visited a top-level definition named main or settings.
C5_Attempt == VisitedDefinition /\ visited.where = "top" /\ visited.name \in ReservedNames

ParameterErrors == {"reserved_parameter", "captures_rest", "metaparameter"}

\* C6: a class or defined type with a defective parameter is rejected with an
\* error and not registered; without one, no parameter error is raised.
C6_DefectiveParametersRejected ==
    /\ (VisitedDefinition /\ visited.defective) => pc = "failed"
    /\ (VisitedDefinition /\ ~visited.defective) => error.kind \notin ParameterErrors
    /\ error.kind \in ParameterErrors => (VisitedDefinition /\ error.pos = "parameter")

\* C6 witness: a definition rejected because a parameter has a metaparameter's name.
C6_Witness ==
    /\ pc = "failed"
    /\ VisitedDefinition
    /\ visited.defective
    /\ error.kind = "metaparameter"

\* The name is empty or begins with "::".
BadName(name) == name = <<>> \/ name[1] = "::"

\* No registered class or defined type has an empty name or one beginning with "::".
C7_NoBadNameRegistered ==
    /\ \A i \in 1..Len(classes) : ~BadName(classes[i].name)
    /\ \A j \in 1..Len(defined_types) : ~BadName(defined_types[j])

\* C7, as claimed: a definition whose name is empty or begins with "::" is
\* rejected with an error at the name's position and never registered.
C7_BadNameErrorAtName ==
    /\ C7_NoBadNameRegistered
    /\ (VisitedDefinition /\ BadName(visited.name)) => (pc = "failed" /\ error.pos = "name")

\* C7, amended: such a definition is rejected with an error and never registered;
\* the error is at the name's position, except for a defined type with a defective
\* parameter, which gets the parameter's error at the parameter's position.
C7_BadNameRejected ==
    /\ C7_NoBadNameRegistered
    /\ (VisitedDefinition /\ BadName(visited.name)) =>
          /\ pc = "failed"
          /\ \/ error.pos = "name"
             \/ /\ visited.def = "defined_type"
                /\ visited.defective
                /\ error.pos = "parameter"

\* C7 witness: a class whose name begins with "::" was just rejected at its name.
C7_Witness ==
    /\ pc = "failed"
    /\ visited.def = "class"
    /\ visited.name = <<"::", "a">>
    /\ error.kind = "invalid_name"
    /\ error.pos = "name"

----------------------------------------------------------------------------
(* Properties of the runtime scope *)

\* Every binding of every scope is the first value its name was set to there.
C8_BindingsAreFirstValues ==
    \A s \in 1..Len(runtime_scopes) :
        /\ DOMAIN runtime_scopes[s].variables = DOMAIN first_set[s]
        /\ \A name \in DOMAIN first_set[s] :
              runtime_scopes[s].variables[name] = first_set[s][name]

\* get of a name set in the scope returns the first value set.
C8_GetReturnsFirstValue ==
    (returned.call = "get" /\ returned.name \in DOMAIN first_set[returned.scope])
        => returned.result = <<first_set[returned.scope][returned.name]>>

\* The first set of a name in a scope returns nullptr and binds the value,
\* whatever the other scopes hold; a later one returns the variable assigned
\* before and changes no scope.
C8_SetOnce ==
    returned'.call = "set" =>
        LET s == returned'.scope
            name == returned'.name
        IN IF name \in DOMAIN first_set[s]
              THEN /\ returned'.result = <<first_set[s][name]>>
                   /\ runtime_scopes' = runtime_scopes
              ELSE /\ returned'.result = <<>>
                   /\ runtime_scopes'[s].variables[name] = returned'.value[1]
                   /\ \A o \in 1..Len(runtime_scopes) :
                         o # s => runtime_scopes'[o] = runtime_scopes[o]

\* C8: scope bindings are write-once: the first set of a name succeeds, later
\* sets in the same scope return the assigned variable and leave the binding,
\* get returns the first value set, and a set in a child scope succeeds and
\* leaves the parent's binding.
C8_WriteOnce ==
    /\ [](C8_BindingsAreFirstValues /\ C8_GetReturnsFirstValue)
    /\ [][C8_SetOnce]_vars

\* C8 witness: parent and child bind x to different values, and a second set of
\* x in the child has just returned the child's variable.
C8_Witness ==
    /\ Len(runtime_scopes) = 2
    /\ "x" \in DOMAIN runtime_scopes[1].variables
    /\ "x" \in DOMAIN runtime_scopes[2].variables
    /\ runtime_scopes[1].variables["x"] = 1
    /\ runtime_scopes[2].variables["x"] = 2
    /\ returned.call = "set"
    /\ returned.scope = 2
    /\ returned.value = <<1>>
    /\ returned.result = <<2>>

----------------------------------------------------------------------------
(* Properties of the logger and of main *)

\* C9: the exit status is 0 exactly when no error occurred during the run.
C9_ExitStatusReflectsErrors ==
    main_pc = "exited" => (exit_status = EXIT_SUCCESS <=> failure = "none")

\* C11: when node.compile throws a compilation exception, main logs exactly one
\* error record, carrying the exception's line, column, text and path, obtains
\* no catalog, and reaches the summary, which reports "failed".
C11_CompilationExceptionReported ==
    (main_pc = "exited" /\ failure = "compilation") =>
        /\ run.reported = << [level |-> "error", positioned |-> TRUE] >>
        /\ ~run.catalog
        /\ run.summary = "failed"

Written(levels) == Cardinality({ i \in 1..Len(logger.written) : logger.written[i] \in levels })

\* C10: errors() is the number of records logged with level error, alert,
\* emergency or critical, warnings() the number logged with level warning.
C10_CountersMatchRecords ==
    /\ logger.errors = Written({"error", "alert", "emergency", "critical"})
    /\ logger.warnings = Written({"warning"})

\* C10 witness: a warning, an error and a notice were logged.
C10_Witness ==
    /\ logger.warnings = 1
    /\ logger.errors = 1
    /\ Len(logger.written) = 3
    /\ \E i \in 1..3 : logger.written[i] = "notice"

----------------------------------------------------------------------------
(* Properties of the operators and functions *)

\* C12: left / right on integers is the error "cannot divide by zero." at the
\* right operand when right is 0, an arithmetic-overflow error when left is the
\* least integer and right is -1, and otherwise the quotient truncated toward
\* zero, which is an integer of the width.
C12_IntegerDivision ==
    evaluation.op = "divide" =>
        LET left == evaluation.left
            right == evaluation.right
            result == evaluation.result
        IN IF right = 0
              THEN /\ result.kind = "error"
                   /\ result.message = "cannot divide by zero."
                   /\ result.position = "right"
           ELSE IF left = IntMin /\ right = -1
              THEN /\ result.kind = "error"
                   /\ result.message = "division results in an arithmetic overflow."
           ELSE /\ result.kind = "value"
                /\ result.value \in Int64
                /\ LET remainder == left - result.value * right
                   IN /\ Abs(remainder) < Abs(right)
                      /\ remainder # 0 => ((remainder < 0) <=> (left < 0))

\* C12 witness: -7 / 2 is -3, the quotient truncated toward zero.
C12_Witness ==
    /\ evaluation.op = "divide"
    /\ evaluation.left = -7
    /\ evaluation.right = 2
    /\ evaluation.result = Value(-3)

\* C13: left << right, for a shift count that is not negative, returns the exact
\* value left * 2^right or raises an evaluation error; it never returns a
\* wrapped or truncated value.
C13_LeftShiftExactOrError ==
    (evaluation.op = "left_shift" /\ evaluation.right >= 0) =>
        \/ evaluation.result.kind = "error"
        \/ /\ evaluation.result.kind = "value"
           /\ evaluation.result.value = evaluation.left * Pow2(evaluation.right)

\* C14: array << x appends: the result has one element more than the array, its
\* first elements are the array's in order, and its last element is x as a
\* single element, also when x is an array or a hash.
C14_ArrayAppend ==
    evaluation.op = "array_left_shift" =>
        LET a == dereference(evaluation.left).elements
            x == dereference(evaluation.right)
            result == evaluation.result
        IN /\ result.kind = "value"
           /\ result.value.type = "array"
           /\ Len(result.value.elements) = Len(a) + 1
           /\ \A i \in 1..Len(a) : result.value.elements[i] = a[i]
           /\ result.value.elements[Len(a) + 1] = x

\* C14 witness: [1] << [1, 2] is [1, [1, 2]].
C14_Witness ==
    /\ evaluation.op = "array_left_shift"
    /\ evaluation.left = Array(<<Integer(1)>>)
    /\ evaluation.right = Array(<<Integer(1), Integer(2)>>)
    /\ evaluation.result = Value(Array(<<Integer(1), Array(<<Integer(1), Integer(2)>>)>>))

\* C15: when the left operand of << or the argument of filter is a variable, the
\* value bound to the variable is the same before and after the call.
C15_VariableUnchanged ==
    (evaluation.op \in {"array_left_shift", "filter"} /\ evaluation.left = Variable)
        => bound = assigned

\* C15 witness: $a << 1 has returned an array longer than the one bound to $a,
\* which has an array among its elements.
C15_Witness ==
    /\ evaluation.op = "array_left_shift"
    /\ evaluation.left = Variable
    /\ bound = Array(<<Integer(1), Array(<<Integer(1)>>)>>)
    /\ evaluation.result = Value(Array(<<Integer(1), Array(<<Integer(1)>>), Integer(1)>>))

\* The arguments of the i-th invocation of the lambda end with the value.
YieldedFor(i, value) == yielded[i][Len(yielded[i])] = value

\* The indices of the elements for which the lambda returned true.
Kept(n) == { i \in 1..n : yield(evaluation.right.lambda, yielded[i]) = Boolean(TRUE) }

\* The k-th smallest member of a set of indices.
Nth(S, k) == CHOOSE i \in S : Cardinality({ j \in S : j < i }) = k - 1

\* C19: filter on an array invokes the lambda once per element in index order
\* and returns exactly the elements for which it returned true, in their
\* original order; on a hash it returns exactly the pairs for which it returned true.
C19_FilterKeepsTrue ==
    evaluation.op = "filter" =>
        LET argument == dereference(evaluation.left)
            elements == argument.elements
            result == evaluation.result.value
            kept == Kept(Len(elements))
        IN /\ evaluation.result.kind = "value"
           /\ result.type = argument.type
           /\ Len(yielded) = Len(elements)
           /\ Len(result.elements) = Cardinality(kept)
           /\ \A k \in 1..Len(result.elements) : result.elements[k] = elements[Nth(kept, k)]
           /\ IF argument.type = "array"
                 THEN \A i \in 1..Len(elements) : YieldedFor(i, elements[i])
                 ELSE \A i \in 1..Len(elements) :
                         \/ yielded[i] = <<elements[i].key, elements[i].value>>
                         \/ yielded[i] = << Array(<<elements[i].key, elements[i].value>>) >>

\* C19 witness: [1, 2].filter |$v| { $v > 1 } is [2], after two invocations.
C19_Witness ==
    /\ evaluation.op = "filter"
    /\ evaluation.left = Array(<<Integer(1), Integer(2)>>)
    /\ evaluation.right = [lambda |-> "greater_than_one", count |-> 1]
    /\ yielded = << <<Integer(1)>>, <<Integer(2)>> >>
    /\ evaluation.result = Value(Array(<<Integer(2)>>))

\* C16: <= on strings is a total preorder (for all a, b: a <= b or b <= a; it
\* is transitive), and a <= b and b <= a both hold exactly when a == b, the
\* equality that ignores case.
C16_StringOrder ==
    evaluation.op = "less_equal_string" =>
        LET a == evaluation.left
            b == evaluation.right
            a_le_b == evaluation.result = Value(Boolean(TRUE))
        IN /\ evaluation.result \in {Value(Boolean(TRUE)), Value(Boolean(FALSE))}
           /\ a_le_b \/ less_equal_string(b, a)
           /\ \A c \in ComparedStrings :
                 (a_le_b /\ less_equal_string(b, c)) => less_equal_string(a, c)
           /\ (a_le_b /\ less_equal_string(b, a)) <=> equals_string(a, b)

\* C16 witness: "ab" <= "A_" holds, which it does only when case is ignored.
C16_Witness ==
    /\ evaluation.op = "less_equal_string"
    /\ evaluation.left = <<97, 98>>
    /\ evaluation.right = <<65, 95>>
    /\ evaluation.result = Value(Boolean(TRUE))

\* The types a type is a specialization of: those it narrows, directly or not.
Generalizations(t) ==
    LET up[n \in 0..Cardinality(Types)] ==
            IF n = 0 THEN {t} ELSE up[n - 1] \cup { Narrows[s] : s \in up[n - 1] }
    IN up[Cardinality(Types)] \ {t}

SpecializationOf(t, other) == other \in Generalizations(t)

RECURSIVE Occurrences(_, _)
Occurrences(s, d) ==
    IF Len(s) < Len(d) THEN 0
    ELSE IF SubSeq(s, 1, Len(d)) = d THEN 1 + Occurrences(SubSeq(s, Len(d) + 1, Len(s)), d)
    ELSE Occurrences(SubSeq(s, 2, Len(s)), d)

\* The strings of an array joined with d between them.
RECURSIVE Joined(_, _)
Joined(fields, d) ==
    IF fields = <<>> THEN <<>>
    ELSE IF Len(fields) = 1 THEN fields[1].elements
    ELSE fields[1].elements \o d \o Joined(Tail(fields), d)

\* C18: split with a non-empty delimiter d keeps the empty fields: the result
\* has one element more than d has non-overlapping occurrences in s, and
\* joining it with d gives back s.
C18_SplitPreservesEmptyFields ==
    (evaluation.op = "split" /\ evaluation.right # <<>>) =>
        LET s == evaluation.left
            d == evaluation.right
            result == evaluation.result.value
        IN /\ evaluation.result.kind = "value"
           /\ result.type = "array"
           /\ Len(result.elements) = Occurrences(s, d) + 1
           /\ Joined(result.elements, d) = s

\* The rules of the statement-only constructs.
StatementOnly ==
    {"resource_expression", "resource_defaults_expression", "resource_override_expression",
     "class_definition_expression", "defined_type_expression", "node_definition_expression"}

\* The rule that invoked the rule at position i, and that rule's invoker.
Invoker(i) == IF i > 1 THEN parsing[i - 1] ELSE "none"
InvokerOfInvoker(i) == IF i > 2 THEN parsing[i - 2] ELSE "none"

\* C20 as stated: a statement-only construct is matched only as the expression
\* of a statement, never as a sub-expression, in particular never as the
\* operand that follows a binary operator.
C20_NeverSubExpression ==
    \A i \in 1..Len(parsing) :
        parsing[i] \in StatementOnly =>
            /\ Invoker(i) = "statement_expression"
            /\ InvokerOfInvoker(i) = "statement"

\* C20 amended: a statement-only construct is matched only at statement level,
\* as the first expression of a statement or as the operand after a binary
\* operator of a statement; no rule that asks for an expression (a function
\* argument, an array or hash element, a parenthesised expression, an operand of
\* a binary expression) invokes one.
C20_StatementLevelOnly ==
    \A i \in 1..Len(parsing) :
        parsing[i] \in StatementOnly =>
            /\ Invoker(i) = "statement_expression"
            /\ InvokerOfInvoker(i) \in {"statement", "binary_statement"}
            /\ InvokerOfInvoker(i) = "binary_statement" => (i > 3 /\ parsing[i - 3] = "statement")
            /\ \A j \in 1..i : parsing[j] = "statement" => Invoker(j) = "statements"

\* A class definition is being matched as the operand after a binary operator of
\* a statement.
C20_Witness ==
    /\ Len(parsing) > 3
    /\ parsing[Len(parsing)] = "class_definition_expression"
    /\ parsing[Len(parsing) - 1] = "statement_expression"
    /\ parsing[Len(parsing) - 2] = "binary_statement"
    /\ parsing[Len(parsing) - 3] = "statement"

\* The values of a relationship operand that are not arrays, in traversal order.
RECURSIVE Leaves(_)
Leaves(value) ==
    IF value.type # "array" THEN <<value>>
    ELSE IF value.elements = <<>> THEN <<>>
    ELSE Leaves(Head(value.elements)) \o Leaves(Array(Tail(value.elements)))

\* The resource a value that is not an array stands for: <<>> for none.
ResourceOf(value) ==
    CASE value.type = "string" -> value.parsed
      [] value.type = "type" /\ value.kind = "resource" /\ value.fully_qualified ->
            <<value.resource>>
      [] value.type = "type" /\ value.kind = "klass" /\ value.title # "" ->
            <<Resource("class", value.title)>>
      [] OTHER -> <<>>

\* C21: each_resource calls back once per value of the operand that is not an
\* array, in traversal order: the callback with the resource for a string that
\* parses as a resource, a fully-qualified resource type or a class type with a
\* title, the error callback for every other value, and the traversal goes on
\* after an error. Without an error callback only the callbacks remain.
C21_EachResource ==
    evaluation.op = "each_resource" =>
        LET leaves == Leaves(evaluation.left)
            expected == [i \in 1..Len(leaves) |->
                            IF ResourceOf(leaves[i]) = <<>> THEN Error(leaves[i])
                            ELSE Callback(ResourceOf(leaves[i])[1])]
            calls == evaluation.result.value
        IN IF evaluation.right THEN calls = expected
           ELSE calls = SelectSeq(expected, LAMBDA c : c.callback = "callback")

\* An array with an invalid element before a valid one was traversed with an
\* error callback.
C21_Witness ==
    /\ evaluation.op = "each_resource"
    /\ evaluation.right
    /\ evaluation.left = Array(<<Undef, Array(<<Undef, KlassType("c")>>)>>)
    /\ evaluation.result.value =
          <<Error(Undef), Error(Undef), Callback(Resource("class", "c"))>>

\* C22: to_array with hash conversion gives one [key, value] array per entry of
\* a hash, in the order of the entries, so an array of [K, V] arrays with
\* distinct keys that is converted to a hash and back is the array again; an
\* array is returned as it is, undef gives the empty array, and any other value
\* a one-element array holding it.
C22_ToArray ==
    evaluation.op = "to_array" =>
        LET val == evaluation.left
            result == evaluation.result.value
        IN /\ evaluation.result.kind = "value"
           /\ result.type = "array"
           /\ val.type = "array" => result = val
           /\ val.type = "undef" => result = Array(<<>>)
           /\ (val.type = "hash" /\ evaluation.right) =>
                 /\ Len(result.elements) = Len(val.elements)
                 /\ \A i \in 1..Len(val.elements) :
                       result.elements[i] = Array(<<val.elements[i].key, val.elements[i].value>>)
                 /\ \A x \in PairArrays : to_hash(x) = val => result = x
           /\ (val.type \notin {"array", "undef"} /\ ~(val.type = "hash" /\ evaluation.right)) =>
                 result = Array(<<val>>)

\* The hash made of [[2, 1], [1, 2]] was converted back to that array.
C22_Witness ==
    /\ evaluation.op = "to_array"
    /\ evaluation.right
    /\ evaluation.left = to_hash(Array(<<Array(<<Integer(2), Integer(1)>>),
                                         Array(<<Integer(1), Integer(2)>>)>>))
    /\ evaluation.result.value = Array(<<Array(<<Integer(2), Integer(1)>>),
                                         Array(<<Integer(1), Integer(2)>>)>>)

\* C23: the error for a class redefined with a conflicting `inherits` parent is
\* thrown at the later definition and carries the position of that definition
\* (its `class` keyword or its name), not a position inside it.
C23_ConflictAtSecondDefinition ==
    error.kind = "parent_conflict" =>
        /\ visited.def = "class"
        /\ \E i \in 1..Len(classes) :
              classes[i].parent # <<>> /\ classes[i].parent # visited.parent
        /\ error.pos \in {"definition", "name"}

\* Two words are the same but for the case of their letters.
SameWord(a, b) ==
    /\ Len(a) = Len(b)
    /\ \A i \in 1..Len(a) :
          \/ a[i] = b[i]
          \/ \E k \in 1..26 : {a[i], b[i]} = {UpperCase[k], LowerCase[k]}

\* The level a word names: the level whose printed name it is but for case, or
\* the level it is an alias of; <<>> for none.
NamedLevel(word) ==
    LET named == { l \in LevelNames : SameWord(word, print_level(l)) }
    IN IF named # {} THEN <<CHOOSE l \in named : TRUE>>
       ELSE IF SameWord(word, <<"e", "r", "r">>) THEN <<"error">>
       ELSE IF SameWord(word, <<"e", "m", "e", "r", "g">>) THEN <<"emergency">>
       ELSE IF SameWord(word, <<"c", "r", "i", "t">>) THEN <<"critical">>
       ELSE <<>>

\* C24: the levels are debug, info, notice, warning, error, alert, emergency and
\* critical in this order; reading the printed name of a level, in any case,
\* gives that level, err, emerg and crit give error, emergency and critical, and
\* any other word throws 'invalid log level' and leaves the level as it was.
C24_LevelNamesRoundTrip ==
    /\ Levels = <<"debug", "info", "notice", "warning", "error", "alert", "emergency", "critical">>
    /\ \A l \in LevelNames : read_level(print_level(l), "debug").value = l
    /\ evaluation.op = "read_level" =>
          IF NamedLevel(evaluation.left) # <<>>
          THEN evaluation.result = Value(NamedLevel(evaluation.left)[1])
          ELSE /\ evaluation.result.kind = "error"
               /\ evaluation.result.message = "invalid log level"
               /\ evaluation.result.value = evaluation.right

\* The printed name Critical was read into a level that was debug.
C24_Witness ==
    /\ evaluation.op = "read_level"
    /\ evaluation.left = print_level("critical")
    /\ evaluation.right = "debug"
    /\ evaluation.result = Value("critical")

Sign(n) == IF n < 0 THEN -1 ELSE 1

\* C25: left << right with right < 0 is sign(left) * (|left| >> |right|), with
\* right >= 0 it is sign(left) * (|left| << right) (as an int64_t), and x << 0 is
\* x for every integer x.
C25_ShiftOfMagnitude ==
    evaluation.op = "left_shift" =>
        LET left == evaluation.left
            right == evaluation.right
        IN /\ evaluation.result.kind = "value"
           /\ right < 0 => evaluation.result.value = Sign(left) * (Abs(left) \div Pow2(-right))
           /\ right >= 0 => evaluation.result.value = wrap(Sign(left) * (Abs(left) * Pow2(right)))
           /\ right = 0 => evaluation.result.value = left

\* The types of left operand an operator accepts, and the types of right operand
\* that match an accepted left operand.
AcceptedLeft(op) ==
    CASE op = "divide_operator" -> {"integer", "float"}
      [] op = "less_equal_operator" -> {"integer", "float", "string", "type"}
      [] op = "left_shift_operator" -> {"integer", "array"}
MatchingRight(op, left_type) ==
    CASE op = "left_shift_operator" /\ left_type = "array" ->
            {"undef", "boolean", "integer", "float", "string", "type", "array", "hash"}
      [] op = "left_shift_operator" -> {"integer"}
      [] left_type \in {"integer", "float"} -> {"integer", "float"}
      [] OTHER -> {left_type}

\* C26: a type error of /, <= or << is positioned at the first offending
\* operand, after variables are dereferenced: at the left operand when its type
\* is not accepted, whatever the right operand is, and at the right operand when
\* the left is accepted and the right operand's type does not match it.
C26_FirstOffendingOperand ==
    evaluation.op \in {"divide_operator", "less_equal_operator", "left_shift_operator"} =>
        LET l == dereference(evaluation.left)
            r == dereference(evaluation.right)
        IN IF l.type \notin AcceptedLeft(evaluation.op)
           THEN evaluation.result.kind = "error" /\ evaluation.result.position = "left"
           ELSE IF r.type \notin MatchingRight(evaluation.op, l.type)
           THEN evaluation.result.kind = "error" /\ evaluation.result.position = "right"
           ELSE evaluation.result.kind = "error" =>
                   evaluation.result.message \in
                       {"cannot divide by zero.", "division results in an arithmetic overflow."}

\* 'a' / 0 reported the left operand.
C26_Witness ==
    /\ evaluation.op = "divide_operator"
    /\ evaluation.left = String(<<97>>)
    /\ evaluation.right = Integer(0)
    /\ evaluation.result.kind = "error"
    /\ evaluation.result.position = "left"

\* The argument lists a lambda of count parameters receives for a value.
Received(value, count) ==
    CASE value.type = "array" ->
            [i \in 1..Len(value.elements) |->
                IF count = 1 THEN <<value.elements[i]>>
                ELSE <<Integer(i - 1), value.elements[i]>>]
      [] value.type = "string" ->
            [i \in 1..Len(value.elements) |->
                IF count = 1 THEN <<String(<<value.elements[i]>>)>>
                ELSE <<Integer(i - 1), String(<<value.elements[i]>>)>>]
      [] value.type = "hash" ->
            [i \in 1..Len(value.elements) |->
                IF count = 1
                THEN << Array(<<value.elements[i].key, value.elements[i].value>>) >>
                ELSE <<value.elements[i].key, value.elements[i].value>>]
      [] OTHER -> <<>>

\* C27: a call of filter with an argument count other than 1, without a lambda,
\* or with a lambda of 0 or more than 2 parameters is an evaluation error and
\* the lambda is not invoked; a lambda of one parameter receives the element
\* (for a hash the array [key, value]), a lambda of two parameters receives
\* (index, element) for arrays and strings and (key, value) for hashes.
C27_FilterValidatesCall ==
    evaluation.op = "filter_call" =>
        IF \/ Len(evaluation.left) # 1
           \/ ~evaluation.right.lambda_given
           \/ evaluation.right.count \notin {1, 2}
        THEN evaluation.result.kind = "error" /\ yielded = <<>>
        ELSE yielded = Received(dereference(evaluation.left[1]), evaluation.right.count)

\* A hash was filtered with a lambda of one parameter.
C27_Witness ==
    /\ evaluation.op = "filter_call"
    /\ evaluation.right.count = 1
    /\ evaluation.right.lambda_given
    /\ evaluation.left =
          << Hash(<<Pair(Integer(1), Integer(2)), Pair(Integer(2), Integer(1))>>) >>
    /\ yielded = << << Array(<<Integer(1), Integer(2)>>) >>,
                    << Array(<<Integer(2), Integer(1)>>) >> >>

\* C28: in every state of the logger, logging a record whose level is below the
\* configured level changes nothing (no record is emitted, warnings() and
\* errors() stay), setting the level to any level leaves the counters, reset()
\* sets both counters to zero and leaves the level, and a new logger is at
\* level notice.
C28_DroppedRecordsHaveNoEffect ==
    /\ NewLogger.level = "notice"
    /\ \A level \in LevelNames :
          /\ LevelValue(level) < LevelValue(logger.level) => log(logger, level) = logger
          /\ set_level(logger, level).warnings = logger.warnings
          /\ set_level(logger, level).errors = logger.errors
    /\ reset(logger).warnings = 0
    /\ reset(logger).errors = 0
    /\ reset(logger).level = logger.level

\* An error and a warning were logged, then the level was raised to critical:
\* the counters stand, and a further error or warning is dropped.
C28_Witness ==
    /\ logger.level = "critical"
    /\ logger.errors = 1
    /\ logger.warnings = 1
    /\ logger.written = <<"error", "warning">>

\* The entries of the class-scope stack pushed by the visits that are under way.
RECURSIVE PushedScopes(_)
PushedScopes(open) ==
    IF open = <<>> THEN 0
    ELSE (IF Head(open).pushed THEN 1 ELSE 0) + PushedScopes(Tail(open))

\* While the visitor scans, its stack is not empty and its bottom is `::`.
C29_Rooted == pc = "scanning" => (scopes # <<>> /\ scopes[1] = TopLevelScope)

\* The stack holds `::` and one entry for each visit under way that pushed one.
C29_Balanced == pc = "scanning" => Len(scopes) = 1 + PushedScopes(frames)

\* A step that completes the scan of a tree leaves the stack [`::`].
C29_RootedAfterScan == (pc = "scanning" /\ pc' = "done") => scopes' = <<TopLevelScope>>

\* A step that registers a class visited directly inside top-level class `a`
\* registers it as a::<name>.
C29_NestedClassName ==
    (/\ pc = "scanning"
     /\ scopes = <<TopLevelScope, <<"a">> >>
     /\ visited'.def = "class"
     /\ Len(classes') = Len(classes) + 1)
    => classes'[Len(classes')].name = <<"a", "::">> \o visited'.name

\* C29: the class-scope stack of the scanning visitor is rooted and balanced:
\* while the visitor scans, the stack is never empty, its bottom element is `::`
\* and it holds exactly one more entry for each visit under way that pushed one
\* (every push is popped when the visit is left); when the scan of a tree
\* completes the stack is exactly [`::`]; and a class defined directly inside
\* top-level class `a` is registered under a::<name>.
C29_ScopeStackBalancedAndRooted ==
    /\ [](C29_Rooted /\ C29_Balanced)
    /\ [][C29_RootedAfterScan /\ C29_NestedClassName]_vars

\* A scan has completed that registered class `a` and, in its body, class a::a.
C29_Witness ==
    /\ pc = "done"
    /\ scopes = <<TopLevelScope>>
    /\ Len(classes) = 2
    /\ classes[1].name = <<"a">>
    /\ classes[2].name = <<"a", "::", "a">>

\* A step in which the scan throws registers nothing.
C30_RejectedRegistersNothing ==
    (pc = "scanning" /\ pc' = "failed")
    => (classes' = classes /\ defined_types' = defined_types /\ nodes' = nodes)

\* A step that visits a definition either registers that one definition and
\* goes on scanning, or throws.
C30_RegisteredOrRejected ==
    (pc = "scanning" /\ visited'.def # "none")
    => \/ pc' = "failed"
       \/ /\ pc' = "scanning"
          /\ Len(classes') + Len(defined_types') + nodes' = Registered + 1

\* A scan of a null context, or of a tree without a body, changes no registry.
C30_NothingToScan ==
    (pc # "scanning" /\ pc' = "done")
    => (classes' = classes /\ defined_types' = defined_types /\ nodes' = nodes)

\* C30: a definition that fails a validation check of its handler (location,
\* name, reserved name, collision of class and defined type, conflicting parent,
\* parameters) is not registered: the step in which the scan throws leaves the
\* class, defined-type and node registries as they were, so they hold exactly
\* the definitions accepted before; and scanning a null context or a tree
\* without a body changes no registry.
C30_RejectedDefinitionLeavesRegistries ==
    [][C30_RejectedRegistersNothing /\ C30_RegisteredOrRejected /\ C30_NothingToScan]_vars

\* Class `a` was registered, then a second definition of it was rejected for a
\* parameter named `title`: the registry holds the first definition alone.
C30_Witness ==
    /\ pc = "failed"
    /\ error.kind = "reserved_parameter"
    /\ visited.def = "class"
    /\ visited.name = <<"a">>
    /\ Len(classes) = 1
    /\ classes[1].name = <<"a">>
    /\ defined_types = <<>>
    /\ nodes = 0

====
